---------------------------- MODULE Spec2Model ----------------------------
(***************************************************************************)
(* A model of the agentic execution core of agnx / duragent:               *)
(*   - the agentic loop            (crates/agnx/src/session/agentic.rs)     *)
(*   - the tool executor           (crates/agnx/src/tools/executor.rs)      *)
(*   - the process registry        (crates/duragent/src/process/registry.rs)*)
(*   - the callback dispatcher     (registry.rs, run_callback)              *)
(* Each subsystem has its own specification (SpecLoop, SpecRegistry,        *)
(* SpecCallback); a specification leaves the other subsystems' variables    *)
(* untouched.                                                               *)
(***************************************************************************)
EXTENDS Integers, Sequences, FiniteSets, TLC

VARIABLES
    \* ---- agentic loop (run_agentic_loop) ----
    lpc,              \* position of the loop
    max_iterations,   \* agent_spec.session.max_tool_iterations
    messages,         \* the conversation sent to the LLM
    iterations,       \* loop counter
    tool_calls_made,  \* calls processed so far
    total_usage,      \* accumulated usage, None or a sum
    content,          \* text of the response being processed
    tool_calls,       \* tool calls of the response being processed
    results,          \* join_all slots, by position in tool_calls
    done_order,       \* positions in the order the futures completed
    idx,              \* position of the for loop over (call, result)
    events,           \* the session's event log
    requests,         \* message lists of the ChatRequests sent, in order
    loop_result,      \* what run_agentic_loop returned
    storeOk,          \* whether record_event succeeds
    produced,         \* call id -> what executor.execute returned for it
    \* ---- process registry (ProcessRegistryHandle) ----
    entries,          \* DashMap: handle -> ProcessEntry
    disk,             \* handle -> contents of <handle>.meta.json
    now,              \* Utc::now()
    task,             \* handle -> the monitor or waiter task of the process
    cancel_rx,        \* handle -> a cancel was sent to the monitor's receiver
    killer,           \* handle -> a kill() call in flight
    guard,            \* handle -> a DashMap guard held across an await
    fired,            \* handle -> completion callbacks dispatched, in order
    rec,              \* handle -> position of recover() for the meta file
    restarts,         \* restarts of the server so far
    kill_ret,         \* handle -> the results kill() has returned
    transitions,      \* handle -> the terminal transitions of the entry
    \* ---- callback dispatcher (fire_completion_callback, run_callback) ----
    cb,               \* callback -> its position and locals
    loop_lock,        \* agentic_loop_locks: session -> holder of the mutex
    steering_channels,\* session -> the callback whose sender is registered
    steering_rx,      \* callback -> messages sent on the channel it created
    session_log,      \* session -> what has been committed to the session
    acquired,         \* session -> callbacks in the order they took the lock
    \* ---- tool executor (ToolExecutor) ----
    ex_tools,         \* ToolExecutor.tools
    ex_policy,        \* ToolExecutor.policy
    ex_last,          \* the last call of the executor and what it did
    ex_done,          \* calls of the executor so far
    policy_log,       \* invocations the policy was asked about, in order
    dispatch_log,     \* arguments the tool functions were called with
    sandbox_log,      \* commands the sandbox ran
    notify_log,       \* notifications sent
    \* ---- Anthropic adapter (to_request) ----
    chat_messages,    \* ChatRequest.messages
    anthropic_request,\* the Request built from it
    \* ---- session store (append, snapshot, load) ----
    store_lock,       \* session -> the client holding the per-session lock
    next_seq,         \* session -> the next sequence number
    event_log,        \* session -> events.log, the records in file order
    session_state,    \* session -> the in-memory Session (status, conversation)
    snapshot_file,    \* session -> snapshot.yaml
    snapshots,        \* session -> every snapshot taken so far
    client,           \* client -> its append or snapshot call in flight
    \* ---- cleanup_old ----
    log_file,         \* handle -> whether the log file of the process exists
    cleaner,          \* the cleanup_old call in flight
    \* ---- screen watcher (spawn_screen_watcher) ----
    watcher,          \* the watcher task's locals and position
    wenv,             \* the clock, the log file's size, the process, silence_timeout
    halted,           \* the screen-halted callbacks fired
    \* ---- SSE stream of POST /sessions/{id}/stream (AccumulatingStream) ----
    sse,              \* the AccumulatingStream: started, finished, accumulated, dropped
    sse_received,     \* the text of every Token the inner stream gave
    sse_out,          \* the SSE events sent to the client
    saved,            \* the assistant messages added to the session
    \* ---- OpenAI stream parser (StreamParser) ----
    oa_in,            \* the deltas of the response and the bytes not yet delivered
    oa,               \* the StreamParser: buffer, done; the chunks from_utf8 rejected
    oa_out,           \* the StreamEvents the parser returned
    \* ---- before-tool hooks (check_skip_duplicate) ----
    hk_ctx,           \* the HookContext (messages, invocation, arguments) and the hook's match_args
    hk_verdict,       \* the GuardVerdict of the last check
    \* ---- atomic_write_file ----
    final_file,       \* the content at final_path
    temp_files,       \* temp path -> the temp file there, if any
    aw,               \* writer -> its atomic_write_file call
    ulids,            \* the ULIDs generated so far
    \* ---- load_all_directives ----
    dr_workspace,     \* file stem -> the file in {workspace}/directives
    dr_agent,         \* file stem -> the file in {agent_dir}/directives
    dr_memory,        \* whether agent.memory is set
    dr_loaded,        \* the directives load_all_directives returned, once called
    \* ---- matches_hook_pattern ----
    gl_pattern,       \* the hook pattern
    gl_invocation,    \* the invocation it is matched against
    gl_result,        \* what matches_hook_pattern returned, once called
    \* ---- check_depends_on ----
    dp_hook,          \* the DependsOn hook
    dp_ctx,           \* the HookContext of the current call
    dp_verdict,       \* the verdict of the hook, once run
    \* ---- write_input ----
    wi_entry,         \* the entry of the subprocess handle
    wi_lock,          \* the caller holding the handle's stdin lock
    wi,               \* caller -> its write_input call
    wi_pipe,          \* what the process has received on its stdin
    wi_calls,         \* write_input calls made so far
    \* ---- start_watcher, stop_watcher and kill of a tmux process ----
    sw_entry,         \* the entry of the tmux handle
    sw_watchers,      \* watcher -> the screen watcher task
    sw_kill,          \* the kill call
    sw_fires,         \* the screen-halted callbacks fired
    sw_ret,           \* what the last start_watcher or stop_watcher returned
    \* ---- steering drain of the loop ----
    sd_drained,       \* the callbacks whose steering message a loop drained and appended
    \* ---- handle-addressed operations of the registry ----
    op_entries,       \* handle -> its entry
    op_last,          \* the last operation called, with its result
    \* ---- Anthropic stream adapter (llm/anthropic.rs) ----
    ad_in,            \* SSE events the inner stream has still to deliver
    ad,               \* AnthropicStreamAdapter fields, ended once poll_next returned None
    ad_out            \* items poll_next has returned, in order

loopVars == <<lpc, max_iterations, messages, iterations, tool_calls_made,
              total_usage, content, tool_calls, results, done_order, idx,
              events, requests, loop_result, storeOk, produced>>

regVars == <<entries, disk, now, task, cancel_rx, killer, guard, fired, rec,
             restarts, kill_ret, transitions>>

cbVars == <<cb, loop_lock, steering_channels, steering_rx, session_log, acquired>>

exVars == <<ex_tools, ex_policy, ex_last, ex_done, policy_log, dispatch_log,
            sandbox_log, notify_log>>

anVars == <<chat_messages, anthropic_request>>

stVars == <<store_lock, next_seq, event_log, session_state, snapshot_file,
            snapshots, client>>

clVars == <<log_file, cleaner>>

waVars == <<watcher, wenv, halted>>

ssVars == <<sse, sse_received, sse_out, saved>>

oaVars == <<oa_in, oa, oa_out>>

hkVars == <<hk_ctx, hk_verdict>>

awVars == <<final_file, temp_files, aw, ulids>>

drVars == <<dr_workspace, dr_agent, dr_memory, dr_loaded>>

glVars == <<gl_pattern, gl_invocation, gl_result>>

dpVars == <<dp_hook, dp_ctx, dp_verdict>>

wiVars == <<wi_entry, wi_lock, wi, wi_pipe, wi_calls>>

swVars == <<sw_entry, sw_watchers, sw_kill, sw_fires, sw_ret>>

sdVars == <<sd_drained>>

opVars == <<op_entries, op_last>>

adVars == <<ad_in, ad, ad_out>>

vars == <<loopVars, regVars, cbVars, exVars, anVars, stVars, clVars, waVars, ssVars, oaVars, hkVars, awVars, drVars, glVars, dpVars, wiVars, swVars, sdVars, opVars, adVars>>

\* What each subsystem's actions leave alone.
outsideLoop == <<regVars, cbVars, exVars, anVars, stVars, clVars, waVars, ssVars, oaVars, hkVars, awVars, drVars, glVars, dpVars, wiVars, swVars, sdVars, opVars, adVars>>
outsideRegistry == <<loopVars, cbVars, exVars, anVars, stVars, clVars, waVars, ssVars, oaVars, hkVars, awVars, drVars, glVars, dpVars, wiVars, swVars, sdVars, opVars, adVars>>
outsideCallback == <<loopVars, regVars, exVars, anVars, stVars, clVars, waVars, ssVars, oaVars, hkVars, awVars, drVars, glVars, dpVars, wiVars, swVars, sdVars, opVars, adVars>>
outsideExecutor == <<loopVars, regVars, cbVars, anVars, stVars, clVars, waVars, ssVars, oaVars, hkVars, awVars, drVars, glVars, dpVars, wiVars, swVars, sdVars, opVars, adVars>>
outsideAnthropic == <<loopVars, regVars, cbVars, exVars, stVars, clVars, waVars, ssVars, oaVars, hkVars, awVars, drVars, glVars, dpVars, wiVars, swVars, sdVars, opVars, adVars>>
outsideStore == <<loopVars, regVars, cbVars, exVars, anVars, clVars, waVars, ssVars, oaVars, hkVars, awVars, drVars, glVars, dpVars, wiVars, swVars, sdVars, opVars, adVars>>
\* What spawn and cleanup_old, which work on the registry and on the log
\* files, leave alone.
outsideCleanup == <<loopVars, cbVars, exVars, anVars, stVars, waVars, ssVars, oaVars, hkVars, awVars, drVars, glVars, dpVars, wiVars, swVars, sdVars, opVars, adVars>>
outsideWatcher == <<loopVars, regVars, cbVars, exVars, anVars, stVars, clVars, ssVars, oaVars, hkVars, awVars, drVars, glVars, dpVars, wiVars, swVars, sdVars, opVars, adVars>>
outsideSse == <<loopVars, regVars, cbVars, exVars, anVars, stVars, clVars, waVars, oaVars, hkVars, awVars, drVars, glVars, dpVars, wiVars, swVars, sdVars, opVars, adVars>>
outsideOpenAi == <<loopVars, regVars, cbVars, exVars, anVars, stVars, clVars, waVars, ssVars, hkVars, awVars, drVars, glVars, dpVars, wiVars, swVars, sdVars, opVars, adVars>>
outsideHooks == <<loopVars, regVars, cbVars, exVars, anVars, stVars, clVars, waVars, ssVars, oaVars, awVars, drVars, glVars, dpVars, wiVars, swVars, sdVars, opVars, adVars>>
outsideAtomicWrite == <<loopVars, regVars, cbVars, exVars, anVars, stVars, clVars, waVars, ssVars, oaVars, hkVars, drVars, glVars, dpVars, wiVars, swVars, sdVars, opVars, adVars>>
outsideDirectives == <<loopVars, regVars, cbVars, exVars, anVars, stVars, clVars, waVars, ssVars, oaVars, hkVars, awVars, glVars, dpVars, wiVars, swVars, sdVars, opVars, adVars>>
outsideGlob == <<loopVars, regVars, cbVars, exVars, anVars, stVars, clVars, waVars, ssVars, oaVars, hkVars, awVars, drVars, dpVars, wiVars, swVars, sdVars, opVars, adVars>>
outsideDepends == <<loopVars, regVars, cbVars, exVars, anVars, stVars, clVars, waVars, ssVars, oaVars, hkVars, awVars, drVars, glVars, wiVars, swVars, sdVars, opVars, adVars>>
outsideWriteInput == <<loopVars, regVars, cbVars, exVars, anVars, stVars, clVars, waVars, ssVars, oaVars, hkVars, awVars, drVars, glVars, dpVars, swVars, sdVars, opVars, adVars>>
outsideScreen == <<loopVars, regVars, cbVars, exVars, anVars, stVars, clVars, waVars, ssVars, oaVars, hkVars, awVars, drVars, glVars, dpVars, wiVars, sdVars, opVars, adVars>>
outsideSteering == <<loopVars, regVars, cbVars, exVars, anVars, stVars, clVars, waVars, ssVars, oaVars, hkVars, awVars, drVars, glVars, dpVars, wiVars, swVars, opVars, adVars>>
outsideDrain == <<loopVars, regVars, exVars, anVars, stVars, clVars, waVars, ssVars, oaVars, hkVars, awVars, drVars, glVars, dpVars, wiVars, swVars, opVars, adVars>>
outsideOps == <<loopVars, regVars, cbVars, exVars, anVars, stVars, clVars, waVars, ssVars, oaVars, hkVars, awVars, drVars, glVars, dpVars, wiVars, swVars, sdVars, adVars>>
outsideAdapter == <<loopVars, regVars, cbVars, exVars, anVars, stVars, clVars, waVars, ssVars, oaVars, hkVars, awVars, drVars, glVars, dpVars, wiVars, swVars, sdVars, opVars>>

None == "none"

\* ------------------------------------------------------------------------
\* Bounds
\* ------------------------------------------------------------------------

\* Tool calls the provider hands out over one conversation.
MaxToolCalls == 2

\* Largest max_tool_iterations the loop is run with.
MaxIterationLimit == 3

IterationLimits == 0..MaxIterationLimit


\* ------------------------------------------------------------------------
\* Tool executor (crates/agnx/src/tools/executor.rs)
\* ------------------------------------------------------------------------

\* ToolExecutor.tools: the configured tools by name.  "memory" is a builtin
\* other than bash; a name outside the domain is not registered.
Tools == [bash |-> "BuiltinBash", lint |-> "Cli", memory |-> "Builtin"]

\* The tool calls the provider asks the loop for (id aside): a bash command
\* the JSON arguments carry, one per policy decision; arguments that are not
\* JSON ("bad"); a name that is not registered.
CallShapes ==
    { [name |-> "bash", arguments |-> "ls"],
      [name |-> "bash", arguments |-> "sudo"],
      [name |-> "bash", arguments |-> "rm"],
      [name |-> "bash", arguments |-> "bad"],
      [name |-> "ghost", arguments |-> "ok"] }

\* extract_bash_command: the command of the JSON arguments; arguments that do
\* not parse are returned as they are.
extract_bash_command(arguments) == arguments

\* ToolPolicy::check for the agent's policy: bash commands by prefix, other
\* tools by name; the default decision is Allow.
PolicyCheck(tool_type, invocation) ==
    CASE tool_type = "Bash" /\ invocation = "sudo" -> "Ask"
      [] tool_type = "Bash" /\ invocation = "rm"   -> "Deny"
      [] OTHER                                      -> "Allow"

Ok(success, text) == [ok |-> TRUE, success |-> success, content |-> text, err |-> None]
Err(e) == [ok |-> FALSE, success |-> FALSE, content |-> None, err |-> e]

\* A join_all slot whose future has not completed.
Pending == [ok |-> FALSE, success |-> FALSE, content |-> None, err |-> "pending"]

\* Sandbox::exec on a command: exit code 0, a non-zero exit code, or a
\* sandbox error (spawn failure, timeout); ToolResult::from_exec sets success
\* iff the exit code is 0.
SandboxExec == { Ok(TRUE, "stdout"), Ok(FALSE, "stderr"), Err("Sandbox") }

\* The policies an executor is built with: the agent's rules or a policy
\* that allows everything, each with notifications off or on.
Policies == { [rules |-> r, notify |-> n] : r \in {"agent", "allow"}, n \in BOOLEAN }

\* The policy of the agent the loop runs for.
AgentPolicy == [rules |-> "agent", notify |-> FALSE]

\* self.policy.check(tool_type, &invocation).
check(policy, tool_type, invocation) ==
    IF policy.rules = "agent" THEN PolicyCheck(tool_type, invocation) ELSE "Allow"

\* self.policy.should_notify(tool_type, invocation).
should_notify(policy, tool_type, invocation) == policy.notify

\* What bash::execute and cli::execute give back: the result and the command
\* handed to sandbox.exec (empty when the sandbox was not reached).
Ran(result, command) == [result |-> result, command |-> command]

\* bash::execute with the sandbox answering out: the arguments must parse as
\* {"command": ...}, then bash -c <command>.
bash_execute(arguments, out) ==
    IF arguments = "bad" THEN Ran(Err("InvalidArguments"), <<>>)
    ELSE Ran(out, <<"bash", "-c", arguments>>)

\* cli::execute with the sandbox answering out: unparseable arguments fall
\* back to the defaults, the args are appended to the tool's command.
cli_execute(command, arguments, out) ==
    Ran(out, <<"bash", "-c", command,
               IF arguments \in {"bad", "ok"} THEN "" ELSE arguments>>)

\* bash::execute, the results it can have.
BashExecute(arguments) == { bash_execute(arguments, out).result : out \in SandboxExec }

\* cli::execute, the results it can have.
CliExecute(arguments) == { cli_execute("lint", arguments, out).result : out \in SandboxExec }

ToolTypeOf(config) == IF config = "BuiltinBash" THEN "Bash" ELSE "Builtin"

InvocationOf(call, config) ==
    IF config = "BuiltinBash" THEN extract_bash_command(call.arguments) ELSE call.name

\* The fields of a ToolError: the call id of ApprovalRequired (0 for the
\* other variants) and its string.
Payload(call_id, text) == [call_id |-> call_id, text |-> text]

NoPayload == Payload(0, "")

\* What one call of the executor did: its result, the payload of the error,
\* the invocations the policy was asked about, the commands the tool
\* functions were called with (dispatched), the command the sandbox ran and
\* the notifications sent.
Outcome(result, payload, checked, dispatched, command, notified) ==
    [result |-> result, payload |-> payload, checked |-> checked,
     dispatched |-> dispatched, command |-> command, notified |-> notified]

\* ToolExecutor::execute_tool: dispatch on the config, then the notification
\* with the success of the result (false for an Err).
execute_tool(call, config, tool_type, invocation, policy, out) ==
    LET ran == CASE config = "BuiltinBash" -> bash_execute(call.arguments, out)
                 [] config = "Builtin"     -> Ran(Err("NotFound"), <<>>)
                 [] config = "Cli"         -> cli_execute(call.name, call.arguments, out)
        success == ran.result.ok /\ ran.result.success
    IN  Outcome(ran.result,
                IF ran.result.err = "NotFound" THEN Payload(0, call.name) ELSE NoPayload,
                <<>>,
                IF config = "Builtin" THEN <<>> ELSE <<call.arguments>>,
                ran.command,
                IF should_notify(policy, tool_type, invocation)
                THEN << [invocation |-> invocation, success |-> success] >> ELSE <<>>)

\* ToolExecutor::execute_tool, the results it can have.
ExecuteTool(call, config) ==
    { execute_tool(call, config, ToolTypeOf(config), InvocationOf(call, config),
                   AgentPolicy, out).result : out \in SandboxExec }

\* An executor that consults the policy only after the tool has run.
execute_checking_late(call, tools, policy, out) ==
    IF call.name \notin DOMAIN tools
    THEN Outcome(Err("NotFound"), Payload(0, call.name), <<>>, <<>>, <<>>, <<>>)
    ELSE LET config == tools[call.name]
             tool_type == ToolTypeOf(config)
             invocation == InvocationOf(call, config)
             decision == check(policy, tool_type, invocation)
             o == execute_tool(call, config, tool_type, invocation, policy, out)
         IN  CASE decision = "Deny" ->
                    [o EXCEPT !.result = Err("PolicyDenied"), !.payload = Payload(0, invocation),
                              !.checked = <<invocation>>]
               [] decision = "Ask" ->
                    [o EXCEPT !.result = Err("ApprovalRequired"),
                              !.payload = Payload(call.id, invocation),
                              !.checked = <<invocation>>]
               [] decision = "Allow" -> [o EXCEPT !.checked = <<invocation>>]

\* ToolExecutor::execute: lookup, tool type and invocation, policy check,
\* execute_tool.
execute(call, tools, policy, out) ==
    IF call.name \notin DOMAIN tools
    THEN Outcome(Err("NotFound"), Payload(0, call.name), <<>>, <<>>, <<>>, <<>>)
    ELSE LET config == tools[call.name]
             tool_type == ToolTypeOf(config)
             invocation == InvocationOf(call, config)
             decision == check(policy, tool_type, invocation)
         IN  CASE decision = "Deny" ->
                    Outcome(Err("PolicyDenied"), Payload(0, invocation), <<invocation>>,
                            <<>>, <<>>, <<>>)
               [] decision = "Ask" ->
                    Outcome(Err("ApprovalRequired"), Payload(call.id, invocation),
                            <<invocation>>, <<>>, <<>>, <<>>)
               [] decision = "Allow" ->
                    [execute_tool(call, config, tool_type, invocation, policy, out)
                        EXCEPT !.checked = <<invocation>>]

\* A post-approval variant that also skips the notification.
execute_bypassing_silently(call, tools, policy, out) ==
    IF call.name \notin DOMAIN tools
    THEN Outcome(Err("NotFound"), Payload(0, call.name), <<>>, <<>>, <<>>, <<>>)
    ELSE LET config == tools[call.name]
         IN  [execute_tool(call, config, ToolTypeOf(config), InvocationOf(call, config),
                           policy, out) EXCEPT !.notified = <<>>]

\* ToolExecutor::execute_bypassing_policy: lookup, tool type and invocation,
\* execute_tool.
execute_bypassing_policy(call, tools, policy, out) ==
    IF call.name \notin DOMAIN tools
    THEN Outcome(Err("NotFound"), Payload(0, call.name), <<>>, <<>>, <<>>, <<>>)
    ELSE LET config == tools[call.name]
         IN  execute_tool(call, config, ToolTypeOf(config), InvocationOf(call, config),
                          policy, out)

\* ToolExecutor::execute for the agent's executor: the results the call can
\* have.
Execute(call) == { execute(call, Tools, AgentPolicy, out).result : out \in SandboxExec }

\* ------------------------------------------------------------------------
\* LLM stream (crates/agnx/src/session/agentic.rs, lines 93-128)
\* ------------------------------------------------------------------------

Token(t) == [type |-> "Token", text |-> t, calls |-> <<>>, usage |-> 0]
ToolCallsEv(cs) == [type |-> "ToolCalls", text |-> "", calls |-> cs, usage |-> 0]
DoneEv(u) == [type |-> "Done", text |-> "", calls |-> <<>>, usage |-> u]
CancelledEv == [type |-> "Cancelled", text |-> "", calls |-> <<>>, usage |-> 0]
ErrorEv == [type |-> "Error", text |-> "", calls |-> <<>>, usage |-> 0]

\* The text a sequence of tokens builds: "" or non-empty.
PushStr(c, t) == IF t = "" THEN c ELSE "text"

\* The while loop over the stream: acc is (content, tool_calls, usage, err).
\* Token appends, ToolCalls replaces, Done sets the usage and goes on reading,
\* Cancelled breaks, an error event returns.
RECURSIVE ConsumeStream(_, _)
ConsumeStream(stream, acc) ==
    IF stream = <<>> THEN acc
    ELSE LET ev == Head(stream) IN
         CASE ev.type = "Token" ->
                ConsumeStream(Tail(stream), [acc EXCEPT !.content = PushStr(@, ev.text)])
           [] ev.type = "ToolCalls" ->
                ConsumeStream(Tail(stream), [acc EXCEPT !.tool_calls = ev.calls])
           [] ev.type = "Done" ->
                ConsumeStream(Tail(stream), [acc EXCEPT !.usage = ev.usage])
           [] ev.type = "Cancelled" -> acc
           [] ev.type = "Error" -> [acc EXCEPT !.err = TRUE]

EmptyAcc == [content |-> "", tool_calls |-> <<>>, usage |-> 0, err |-> FALSE]

\* Usage accumulation: 0 stands for None.
AddUsage(total, u) == IF u = 0 THEN total ELSE total + u

\* The streams a provider answers one request with, for a tool-call list cs.
StreamsFor(cs) ==
    LET tc == IF cs = <<>> THEN <<>> ELSE <<ToolCallsEv(cs)>> IN
    { tc \o <<DoneEv(1)>>,
      <<Token("t")>> \o tc \o <<DoneEv(1)>>,
      <<Token("t"), CancelledEv>> \o tc,
      <<Token("t"), ErrorEv>> }

\* ------------------------------------------------------------------------
\* Agentic loop (crates/agnx/src/session/agentic.rs)
\* ------------------------------------------------------------------------

Msg(role, text, calls, call_id) ==
    [role |-> role, content |-> text, tool_calls |-> calls, tool_call_id |-> call_id]

initial_messages == << Msg("user", "hi", <<>>, None) >>

\* Message::assistant_tool_calls when the content is empty, else the message
\* with content and tool calls.
AssistantMsg(text, calls) ==
    Msg("assistant", IF text = "" THEN None ELSE text, calls, None)

\* Display of a ToolError inside "Tool execution failed: {}".
ErrorContent(e) ==
    CASE e = "NotFound"         -> "Tool execution failed: tool not found"
      [] e = "InvalidArguments" -> "Tool execution failed: failed to parse tool arguments"
      [] e = "Sandbox"          -> "Tool execution failed: sandbox error"
      [] e = "PolicyDenied"     -> "Tool execution failed: denied by policy"
      [] e = "ApprovalRequired" -> "Tool execution failed: approval required"

\* Lines 186-196: an Err becomes a failed ToolResult fed back to the LLM.
ToToolResult(r) ==
    IF r.ok THEN [success |-> r.success, content |-> r.content]
    ELSE [success |-> FALSE, content |-> ErrorContent(r.err)]

ToolCallEvent(call) ==
    [kind |-> "ToolCall", call_id |-> call.id, tool_name |-> call.name,
     success |-> FALSE, content |-> None]

ToolResultEvent(call, tr) ==
    [kind |-> "ToolResult", call_id |-> call.id, tool_name |-> None,
     success |-> tr.success, content |-> tr.content]

\* record_event: appends to the log; a failure is logged and the log is left
\* as it was.
RecordEvent(log, ev) == IF storeOk THEN Append(log, ev) ELSE log

\* The events one pass of the for loop records for (call, result).
RecordPair(log, call, r) ==
    RecordEvent(RecordEvent(log, ToolCallEvent(call)),
                ToolResultEvent(call, ToToolResult(r)))

\* A loop that feeds only successful executions back to the LLM.
PushToolResultIfOk(msgs, call, r) ==
    IF r.ok THEN Append(msgs, Msg("tool", r.content, <<>>, call.id)) ELSE msgs

\* Message::tool_result(&tool_call.id, result.content), pushed on messages.
PushToolResult(msgs, call, r) ==
    Append(msgs, Msg("tool", ToToolResult(r).content, <<>>, call.id))

LoopInit ==
    /\ lpc = "top"
    /\ max_iterations \in IterationLimits
    /\ messages = initial_messages
    /\ iterations = 0
    /\ tool_calls_made = 0
    /\ total_usage = 0
    /\ content = ""
    /\ tool_calls = <<>>
    /\ results = <<>>
    /\ done_order = <<>>
    /\ idx = 0
    /\ events = <<>>
    /\ requests = <<>>
    /\ loop_result = [kind |-> None, content |-> "", iterations |-> 0, tool_calls_made |-> 0]
    /\ storeOk = TRUE
    /\ produced = <<>>

\* The shapes of the tool-call lists a response may carry.
ShapeLists == UNION { [1..n -> CallShapes] : n \in 0..MaxToolCalls }

\* The tool calls of a response with shapes sl: ids are fresh, handed out in
\* order after the first-1 ids already used.
CallList(first, sl) ==
    [i \in 1..Len(sl) |-> [id |-> first + i - 1, name |-> sl[i].name,
                           arguments |-> sl[i].arguments]]

\* The limit checked one iteration early.
LimitExceededEarly(n, limit) == n >= limit

\* Line 73: iterations > max_iterations.
LimitExceeded(n, limit) == n > limit

\* Lines 70-91: the loop head; the iteration limit, then the request.
LoopIterate ==
    /\ lpc = "top"
    /\ UNCHANGED outsideLoop
    /\ iterations' = iterations + 1
    /\ IF LimitExceeded(iterations + 1, max_iterations)
       THEN /\ lpc' = "returned"
            /\ loop_result' = [kind |-> "MaxIterationsExceeded", content |-> "",
                               iterations |-> max_iterations,
                               tool_calls_made |-> tool_calls_made]
            /\ UNCHANGED requests
       ELSE /\ lpc' = "stream"
            /\ requests' = Append(requests, messages)
            /\ UNCHANGED loop_result
    /\ UNCHANGED <<max_iterations, messages, tool_calls_made, total_usage, content,
                   tool_calls, results, done_order, idx, events, storeOk, produced>>

\* Line 94: provider.chat_stream(request) fails.
LlmRequestFails ==
    /\ lpc = "stream"
    /\ UNCHANGED outsideLoop
    /\ lpc' = "returned"
    /\ loop_result' = [kind |-> "LlmError", content |-> "", iterations |-> iterations,
                       tool_calls_made |-> tool_calls_made]
    /\ UNCHANGED <<max_iterations, messages, iterations, tool_calls_made, total_usage,
                   content, tool_calls, results, done_order, idx, events, requests,
                   storeOk, produced>>

\* Lines 96-162: the stream is consumed, usage accumulated; without tool calls
\* the loop returns, with tool calls the assistant message is pushed and every
\* call is dispatched.
LlmRespond(stream) ==
    /\ lpc = "stream"
    /\ UNCHANGED outsideLoop
    /\ LET acc == ConsumeStream(stream, EmptyAcc) IN
       IF acc.err
       THEN /\ lpc' = "returned"
            /\ loop_result' = [kind |-> "LlmError", content |-> "",
                               iterations |-> iterations,
                               tool_calls_made |-> tool_calls_made]
            /\ UNCHANGED <<messages, total_usage, content, tool_calls, results,
                           done_order>>
       ELSE /\ total_usage' = AddUsage(total_usage, acc.usage)
            /\ content' = acc.content
            /\ tool_calls' = acc.tool_calls
            /\ IF acc.tool_calls = <<>>
               THEN /\ lpc' = "returned"
                    /\ loop_result' = [kind |-> "Complete", content |-> acc.content,
                                       iterations |-> iterations,
                                       tool_calls_made |-> tool_calls_made]
                    /\ UNCHANGED <<messages, results, done_order>>
               ELSE /\ lpc' = "join"
                    /\ messages' = Append(messages, AssistantMsg(acc.content, acc.tool_calls))
                    /\ results' = [i \in 1..Len(acc.tool_calls) |-> Pending]
                    /\ done_order' = <<>>
                    /\ UNCHANGED loop_result
    /\ UNCHANGED <<max_iterations, iterations, tool_calls_made, idx, events, requests,
                   storeOk, produced>>

\* The provider answers the request with some stream.
ProviderAnswers ==
    \E sl \in ShapeLists :
        /\ Len(sl) <= MaxToolCalls - tool_calls_made
        /\ \E stream \in StreamsFor(CallList(tool_calls_made + 1, sl)) : LlmRespond(stream)

Range(f) == { f[i] : i \in DOMAIN f }

\* A results vector that pairs the outputs with the completion order instead
\* of the dispatch order (what collecting from an unordered set would give).
JoinSlotByCompletion(i, order) == Len(order) + 1

\* futures::future::join_all: the output of the i-th future is the i-th
\* element of the result, whatever the order of completion.
JoinSlot(i, order) == i

\* Lines 157-162: one of the futures join_all drives completes.
ToolFinishes ==
    /\ lpc = "join"
    /\ UNCHANGED outsideLoop
    /\ \E i \in 1..Len(tool_calls) :
        /\ i \notin Range(done_order)
        /\ \E r \in Execute(tool_calls[i]) :
              /\ results' = [results EXCEPT ![JoinSlot(i, done_order)] = r]
              /\ produced' = (tool_calls[i].id :> r) @@ produced
        /\ done_order' = Append(done_order, i)
    /\ UNCHANGED <<lpc, max_iterations, messages, iterations, tool_calls_made,
                   total_usage, content, tool_calls, idx, events, requests, loop_result,
                   storeOk>>

\* Line 162: join_all returns once every future has completed.
JoinAll ==
    /\ lpc = "join"
    /\ UNCHANGED outsideLoop
    /\ Len(done_order) = Len(tool_calls)
    /\ lpc' = "process"
    /\ idx' = 1
    /\ UNCHANGED <<max_iterations, messages, iterations, tool_calls_made, total_usage,
                   content, tool_calls, results, done_order, events, requests,
                   loop_result, storeOk, produced>>

\* A for loop that propagates a tool error with `?` instead of feeding it back.
ProcessResultPropagating ==
    /\ lpc = "process"
    /\ UNCHANGED outsideLoop
    /\ idx <= Len(tool_calls)
    /\ tool_calls_made' = tool_calls_made + 1
    /\ IF results[idx].ok
       THEN /\ events' = RecordPair(events, tool_calls[idx], results[idx])
            /\ messages' = PushToolResult(messages, tool_calls[idx], results[idx])
            /\ IF idx = Len(tool_calls)
               THEN /\ lpc' = "top"
                    /\ idx' = 0
                    /\ tool_calls' = <<>>
                    /\ results' = <<>>
               ELSE /\ idx' = idx + 1
                    /\ UNCHANGED <<lpc, tool_calls, results>>
            /\ UNCHANGED loop_result
       ELSE /\ events' = RecordEvent(events, ToolCallEvent(tool_calls[idx]))
            /\ lpc' = "returned"
            /\ loop_result' = [kind |-> "ToolError", content |-> "",
                               iterations |-> iterations,
                               tool_calls_made |-> tool_calls_made + 1]
            /\ UNCHANGED <<messages, idx, tool_calls, results>>
    /\ UNCHANGED <<max_iterations, iterations, total_usage, content, done_order,
                   requests, storeOk, produced>>

\* Lines 165-219: one pass of the for loop over tool_calls.iter().zip(results);
\* after the last pair the loop goes back to its head.
ProcessResult ==
    /\ lpc = "process"
    /\ UNCHANGED outsideLoop
    /\ idx <= Len(tool_calls)
    /\ tool_calls_made' = tool_calls_made + 1
    /\ events' = RecordPair(events, tool_calls[idx], results[idx])
    /\ messages' = PushToolResult(messages, tool_calls[idx], results[idx])
    /\ IF idx = Len(tool_calls)
       THEN /\ lpc' = "top"
            /\ idx' = 0
            /\ tool_calls' = <<>>
            /\ results' = <<>>
       ELSE /\ idx' = idx + 1
            /\ UNCHANGED <<lpc, tool_calls, results>>
    /\ UNCHANGED <<max_iterations, iterations, total_usage, content, done_order,
                   requests, loop_result, storeOk, produced>>

\* The session store starts or stops failing: from then on record_event
\* returns Err or Ok.
StoreHealthChanges ==
    /\ lpc = "process"
    /\ idx <= Len(tool_calls)
    /\ storeOk' = ~storeOk
    /\ UNCHANGED <<lpc, max_iterations, messages, iterations, tool_calls_made, total_usage,
                   content, tool_calls, results, done_order, idx, events, requests,
                   loop_result, produced>>
    /\ UNCHANGED outsideLoop

LoopNext ==
    \/ LoopIterate
    \/ LlmRequestFails
    \/ ProviderAnswers
    \/ ToolFinishes
    \/ JoinAll
    \/ ProcessResult

\* ------------------------------------------------------------------------
\* Process registry (crates/duragent/src/process/registry.rs)
\* ------------------------------------------------------------------------

\* Latest instant of the clock.
MaxClock == 3

\* Restarts of the server.
MaxRestarts == 1

Handles == {"h1"}
Sessions == {"s1", "s2"}

\* ProcessStatus::is_terminal.
is_terminal(status) == status \in {"Completed", "Failed", "TimedOut", "Killed", "Lost"}

\* ProcessMeta: status, timestamps (0 is None), owning session, whether the
\* process runs in a tmux session, whether gateway and chat_id are both set.
Meta(status, spawned_at, completed_at, session_id, tmux_session, routed) ==
    [status |-> status, spawned_at |-> spawned_at, completed_at |-> completed_at,
     session_id |-> session_id, tmux_session |-> tmux_session, routed |-> routed]

\* No meta file / no entry under the handle.
NoMeta == Meta("Absent", 0, 0, None, FALSE, FALSE)

\* ProcessEntry: the meta and the two cancel senders (TRUE is Some).
Entry(meta, cancel_tx, watcher_cancel_tx) ==
    [meta |-> meta, cancel_tx |-> cancel_tx, watcher_cancel_tx |-> watcher_cancel_tx]

NoEntry == Entry(NoMeta, FALSE, FALSE)

\* The task that follows a process: kind, position, what its select! saw
\* (the exit status, the timeout, the cancel), and the meta it cloned for
\* persist_meta.
Task(kind, pc, outcome, meta) == [kind |-> kind, pc |-> pc, outcome |-> outcome, meta |-> meta]

NoTask == Task("none", "done", "Absent", NoMeta)

Monitors == {"child_monitor", "tmux_monitor"}

NoKill == [pc |-> "idle", cancel_tx |-> FALSE, watcher_tx |-> FALSE]

RegistryInit ==
    /\ entries = [h \in Handles |-> NoEntry]
    /\ disk = [h \in Handles |-> NoMeta]
    /\ now = 1
    /\ task = [h \in Handles |-> NoTask]
    /\ cancel_rx = [h \in Handles |-> FALSE]
    /\ killer = [h \in Handles |-> NoKill]
    /\ guard = [h \in Handles |-> None]
    /\ fired = [h \in Handles |-> <<>>]
    /\ rec = [h \in Handles |-> "done"]
    /\ restarts = 0
    /\ kill_ret = [h \in Handles |-> {}]
    /\ transitions = [h \in Handles |-> <<>>]

\* Time passes.
Tick ==
    /\ now < MaxClock
    /\ now' = now + 1
    /\ UNCHANGED <<entries, disk, task, cancel_rx, killer, guard, fired, rec, restarts,
                   kill_ret, transitions>>
    /\ UNCHANGED outsideRegistry

\* Which task follows the process: spawn's four branches.
TaskKind(tmux, wait) ==
    IF wait THEN (IF tmux THEN "wait_for_tmux" ELSE "wait_for_child")
    ELSE (IF tmux THEN "tmux_monitor" ELSE "child_monitor")

\* spawn: a fresh handle; the meta is persisted, the entry inserted (without a
\* cancel sender when wait is set), and the waiter or monitor started.
Spawn(h, session_id, tmux, wait, routed) ==
    /\ entries[h] = NoEntry
    /\ disk[h] = NoMeta
    /\ LET meta == Meta("Running", now, 0, session_id, tmux, routed) IN
       /\ disk' = [disk EXCEPT ![h] = meta]
       /\ entries' = [entries EXCEPT ![h] = Entry(meta, ~wait, FALSE)]
    /\ task' = [task EXCEPT ![h] = Task(TaskKind(tmux, wait), "wait", "Absent", NoMeta)]
    /\ log_file' = [log_file EXCEPT ![h] = TRUE]
    /\ UNCHANGED <<now, cancel_rx, killer, guard, fired, rec, restarts, kill_ret,
                   transitions>>
    /\ UNCHANGED <<outsideCleanup, cleaner>>

\* The process exits: exit code 0 is Completed, any other Failed.
ProcessExits(h, status) ==
    /\ task[h].pc = "wait"
    /\ task' = [task EXCEPT ![h].pc = "mark", ![h].outcome = status]
    /\ UNCHANGED <<entries, disk, now, cancel_rx, killer, guard, fired, rec, restarts,
                   kill_ret, transitions>>
    /\ UNCHANGED outsideRegistry

\* What the task marks on a timeout: wait_for_child reports exit code -1 and
\* marks Failed; wait_for_tmux and the monitors mark TimedOut.
TimeoutOutcome(kind) == IF kind = "wait_for_child" THEN "Failed" ELSE "TimedOut"

\* The mark_* call a task makes for what its select! saw.
MarkedStatus(kind, outcome) ==
    IF outcome = "TimedOut" THEN TimeoutOutcome(kind) ELSE outcome

\* The timeout of the process elapses first: the task kills the process
\* (graceful_kill, tmux::kill_session) and goes on to its mark_* call.
TimesOut(h) ==
    /\ task[h].pc = "wait"
    /\ task' = [task EXCEPT ![h].pc = "mark", ![h].outcome = "TimedOut"]
    /\ UNCHANGED <<entries, disk, now, cancel_rx, killer, guard, fired, rec, restarts,
                   kill_ret, transitions>>
    /\ UNCHANGED outsideRegistry

\* The monitor's cancel_rx branch: it will call mark_killed.
CancelObserved(h) ==
    /\ task[h].pc = "wait"
    /\ task[h].kind \in Monitors
    /\ cancel_rx[h]
    /\ task' = [task EXCEPT ![h].pc = "mark", ![h].outcome = "Killed"]
    /\ UNCHANGED <<entries, disk, now, cancel_rx, killer, guard, fired, rec, restarts,
                   kill_ret, transitions>>
    /\ UNCHANGED outsideRegistry

\* update_status that overwrites whatever status is there.
update_status_unguarded(entry, status, t) ==
    [entry EXCEPT !.meta.status = status, !.meta.completed_at = t, !.cancel_tx = FALSE]

\* update_status on the entry: nothing if the status is terminal, else the
\* status, completed_at, and the cancel sender dropped.
update_status(entry, status, t) ==
    IF is_terminal(entry.meta.status) THEN entry
    ELSE [entry EXCEPT !.meta.status = status, !.meta.completed_at = t, !.cancel_tx = FALSE]

\* Where a task goes after update_status: a monitor fires the completion
\* callback, a waiter returns its WaitResult.
AfterMark(kind) == IF kind \in Monitors THEN "callback" ELSE "done"

\* mark_completed / mark_failed / mark_timed_out / mark_killed: the get_mut
\* section of update_status.
MarkStatus(h) ==
    /\ task[h].pc = "mark"
    /\ guard[h] = None
    /\ LET updated == update_status(entries[h], MarkedStatus(task[h].kind, task[h].outcome), now) IN
       IF entries[h] = NoEntry \/ updated = entries[h]
       THEN /\ task' = [task EXCEPT ![h].pc = AfterMark(task[h].kind)]
            /\ UNCHANGED <<entries, transitions>>
       ELSE /\ entries' = [entries EXCEPT ![h] = updated]
            /\ task' = [task EXCEPT ![h].pc = "persist", ![h].meta = updated.meta]
            /\ transitions' = [transitions EXCEPT ![h] =
                   Append(@, [by |-> "monitor", status |-> updated.meta.status,
                              at |-> updated.meta.completed_at])]
    /\ UNCHANGED <<disk, now, cancel_rx, killer, guard, fired, rec, restarts, kill_ret>>
    /\ UNCHANGED outsideRegistry

\* persist_meta(&meta) at the end of update_status, the guard dropped.
PersistStatus(h) ==
    /\ task[h].pc = "persist"
    /\ disk' = [disk EXCEPT ![h] = task[h].meta]
    /\ task' = [task EXCEPT ![h].pc = AfterMark(task[h].kind)]
    /\ UNCHANGED <<entries, now, cancel_rx, killer, guard, fired, rec, restarts,
                   kill_ret, transitions>>
    /\ UNCHANGED outsideRegistry

\* fire_completion_callback up to the dispatch: nothing without an entry or
\* without gateway and chat_id; the record keeps what the entry and the meta
\* file held when the callback was dispatched.
Dispatch(h) ==
    IF entries[h] = NoEntry \/ ~entries[h].meta.routed THEN fired[h]
    ELSE Append(fired[h], [entry |-> entries[h].meta, file |-> disk[h]])

\* The monitor fires the completion callback after its mark.
MonitorCallback(h) ==
    /\ task[h].pc = "callback"
    /\ fired' = [fired EXCEPT ![h] = Dispatch(h)]
    /\ task' = [task EXCEPT ![h].pc = "done"]
    /\ UNCHANGED <<entries, disk, now, cancel_rx, killer, guard, rec, restarts,
                   kill_ret, transitions>>
    /\ UNCHANGED outsideRegistry

\* kill's checks that lets a kill through on a terminal entry.
kill_check_unguarded(entry, session_id) ==
    CASE entry = NoEntry                      -> "NotFound"
      [] entry.meta.session_id # session_id   -> "WrongSession"
      [] OTHER                                -> "Ok"

\* kill's checks that take only a killed entry as not running.
kill_check_killed_only(entry, session_id) ==
    CASE entry = NoEntry                      -> "NotFound"
      [] entry.meta.session_id # session_id   -> "WrongSession"
      [] entry.meta.status = "Killed"         -> "NotRunning"
      [] OTHER                                -> "Ok"

\* kill's checks inside the get_mut block, in the code's order.
kill_check(entry, session_id) ==
    CASE entry = NoEntry                      -> "NotFound"
      [] entry.meta.session_id # session_id   -> "WrongSession"
      [] is_terminal(entry.meta.status)       -> "NotRunning"
      [] OTHER                                -> "Ok"

\* kill, the get_mut block: an error returns; otherwise Killed and
\* completed_at are set and both cancel senders taken out of the entry.
KillCall(h, session_id) ==
    /\ guard[h] = None
    /\ LET r == kill_check(entries[h], session_id) IN
       IF r # "Ok"
       THEN /\ kill_ret' = [kill_ret EXCEPT ![h] = @ \cup {r}]
            /\ UNCHANGED <<entries, killer, transitions>>
       ELSE /\ killer[h].pc = "idle"
            /\ entries' = [entries EXCEPT ![h] =
                   Entry([entries[h].meta EXCEPT !.status = "Killed", !.completed_at = now],
                         FALSE, FALSE)]
            /\ killer' = [killer EXCEPT ![h] =
                   [pc |-> "send", cancel_tx |-> entries[h].cancel_tx,
                    watcher_tx |-> entries[h].watcher_cancel_tx]]
            /\ transitions' = [transitions EXCEPT ![h] =
                   Append(@, [by |-> "kill", status |-> "Killed", at |-> now])]
            /\ UNCHANGED kill_ret
    /\ UNCHANGED <<disk, now, task, cancel_rx, guard, fired, rec, restarts>>
    /\ UNCHANGED outsideRegistry

\* kill, lines 504-509: the cancel signals are sent outside the lock.
KillSendCancel(h) ==
    /\ killer[h].pc = "send"
    /\ cancel_rx' = [cancel_rx EXCEPT ![h] = @ \/ killer[h].cancel_tx]
    /\ killer' = [killer EXCEPT ![h].pc = "persist"]
    /\ UNCHANGED <<entries, disk, now, task, guard, fired, rec, restarts, kill_ret,
                   transitions>>
    /\ UNCHANGED outsideRegistry

\* kill, line 512: entries.get; the read guard lives until persist_meta is done.
KillGetEntry(h) ==
    /\ killer[h].pc = "persist"
    /\ guard[h] = None
    /\ IF entries[h] = NoEntry
       THEN /\ killer' = [killer EXCEPT ![h] = NoKill]
            /\ kill_ret' = [kill_ret EXCEPT ![h] = @ \cup {"Ok"}]
            /\ UNCHANGED guard
       ELSE /\ killer' = [killer EXCEPT ![h].pc = "write"]
            /\ guard' = [guard EXCEPT ![h] = "kill"]
            /\ UNCHANGED kill_ret
    /\ UNCHANGED <<entries, disk, now, task, cancel_rx, fired, rec, restarts, transitions>>
    /\ UNCHANGED outsideRegistry

\* kill, lines 513-516: persist_meta(&entry.meta) completes, the guard is
\* dropped and kill returns Ok.
KillPersist(h) ==
    /\ killer[h].pc = "write"
    /\ disk' = [disk EXCEPT ![h] = entries[h].meta]
    /\ guard' = [guard EXCEPT ![h] = None]
    /\ killer' = [killer EXCEPT ![h] = NoKill]
    /\ kill_ret' = [kill_ret EXCEPT ![h] = @ \cup {"Ok"}]
    /\ UNCHANGED <<entries, now, task, cancel_rx, fired, rec, restarts, transitions>>
    /\ UNCHANGED outsideRegistry

\* shutdown: every cancel sender is taken and signalled.
Shutdown ==
    /\ \E h \in Handles : entries[h].cancel_tx
    /\ \A h \in Handles : guard[h] = None
    /\ cancel_rx' = [h \in Handles |-> cancel_rx[h] \/ entries[h].cancel_tx]
    /\ entries' = [h \in Handles |-> [entries[h] EXCEPT !.cancel_tx = FALSE]]
    /\ UNCHANGED <<disk, now, task, killer, guard, fired, rec, restarts, kill_ret,
                   transitions>>
    /\ UNCHANGED outsideRegistry

\* The server stops and starts again: memory is lost, the meta files stay;
\* recover() will go through them.
Restart ==
    /\ restarts < MaxRestarts
    /\ restarts' = restarts + 1
    /\ entries' = [h \in Handles |-> NoEntry]
    /\ task' = [h \in Handles |-> NoTask]
    /\ cancel_rx' = [h \in Handles |-> FALSE]
    /\ killer' = [h \in Handles |-> NoKill]
    /\ guard' = [h \in Handles |-> None]
    /\ kill_ret' = [h \in Handles |-> {}]
    /\ transitions' = [h \in Handles |-> <<>>]
    /\ rec' = [h \in Handles |-> IF disk[h] = NoMeta THEN "done" ELSE "todo"]
    /\ UNCHANGED <<disk, now, fired>>
    /\ UNCHANGED outsideRegistry

\* recover goes through the meta files one at a time.
RecoverFree(h) == \A g \in Handles \ {h} : rec[g] \in {"todo", "done"}

\* recover, lines 597-604: a terminal meta is loaded as it is.
RecoverTerminal(h) ==
    /\ rec[h] = "todo"
    /\ RecoverFree(h)
    /\ is_terminal(disk[h].status)
    /\ entries' = [entries EXCEPT ![h] = Entry(disk[h], FALSE, FALSE)]
    /\ rec' = [rec EXCEPT ![h] = "done"]
    /\ UNCHANGED <<disk, now, task, cancel_rx, killer, guard, fired, restarts, kill_ret,
                   transitions>>
    /\ UNCHANGED outsideRegistry

\* recover, lines 551-553: tmux::has_session is asked about the session a
\* running meta names.
RecoverProbe(h, has_session) ==
    /\ rec[h] = "todo"
    /\ RecoverFree(h)
    /\ ~is_terminal(disk[h].status)
    /\ disk[h].tmux_session
    /\ rec' = [rec EXCEPT ![h] = IF has_session THEN "alive" ELSE "gone"]
    /\ UNCHANGED <<entries, disk, now, task, cancel_rx, killer, guard, fired, restarts,
                   kill_ret, transitions>>
    /\ UNCHANGED outsideRegistry

\* recover, lines 554-579: the tmux session of a running process still
\* exists; the entry is re-adopted with a new monitor.
RecoverReadopt(h) ==
    /\ rec[h] = "alive"
    /\ entries' = [entries EXCEPT ![h] = Entry(disk[h], TRUE, FALSE)]
    /\ task' = [task EXCEPT ![h] = Task("tmux_monitor", "wait", "Absent", NoMeta)]
    /\ rec' = [rec EXCEPT ![h] = "done"]
    /\ UNCHANGED <<disk, now, cancel_rx, killer, guard, fired, restarts, kill_ret,
                   transitions>>
    /\ UNCHANGED outsideRegistry

\* A recovery that gives up every process it finds running.
IsLostAlways(h) ==
    \/ rec[h] \in {"gone", "alive"}
    \/ rec[h] = "todo" /\ RecoverFree(h) /\ ~is_terminal(disk[h].status)
                       /\ ~disk[h].tmux_session

\* Lines 551-553 and 581: a running meta that names no tmux session, or one
\* whose tmux session is gone.
IsLost(h) ==
    \/ rec[h] = "gone"
    \/ rec[h] = "todo" /\ RecoverFree(h) /\ ~is_terminal(disk[h].status)
                       /\ ~disk[h].tmux_session

\* A Lost meta without its completion time.
LostMetaUndated(meta, t) == [meta EXCEPT !.status = "Lost"]

\* Lines 582-583: meta.status = Lost, meta.completed_at = Some(Utc::now()).
LostMeta(meta, t) == [meta EXCEPT !.status = "Lost", !.completed_at = t]

\* recover, lines 581-592: no tmux session (any more); the meta is marked
\* Lost, persisted, and loaded.
RecoverLost(h) ==
    /\ IsLost(h)
    /\ LET meta == LostMeta(disk[h], now) IN
       /\ disk' = [disk EXCEPT ![h] = meta]
       /\ entries' = [entries EXCEPT ![h] = Entry(meta, FALSE, FALSE)]
       /\ transitions' = [transitions EXCEPT ![h] =
              Append(@, [by |-> "recover", status |-> "Lost", at |-> now])]
    /\ rec' = [rec EXCEPT ![h] = "callback"]
    /\ UNCHANGED <<now, task, cancel_rx, killer, guard, fired, restarts, kill_ret>>
    /\ UNCHANGED outsideRegistry

\* recover, line 595: the completion callback of the lost process.
RecoverCallback(h) ==
    /\ rec[h] = "callback"
    /\ fired' = [fired EXCEPT ![h] = Dispatch(h)]
    /\ rec' = [rec EXCEPT ![h] = "done"]
    /\ UNCHANGED <<entries, disk, now, task, cancel_rx, killer, guard, restarts,
                   kill_ret, transitions>>
    /\ UNCHANGED outsideRegistry

RegistryNext ==
    \/ Tick
    \/ \E h \in Handles, s \in Sessions, tmux \in BOOLEAN, wait \in BOOLEAN,
          routed \in BOOLEAN : Spawn(h, s, tmux, wait, routed)
    \/ \E h \in Handles, status \in {"Completed", "Failed"} : ProcessExits(h, status)
    \/ \E h \in Handles : TimesOut(h)
    \/ \E h \in Handles : CancelObserved(h)
    \/ \E h \in Handles : MarkStatus(h)
    \/ \E h \in Handles : PersistStatus(h)
    \/ \E h \in Handles : MonitorCallback(h)
    \/ \E h \in Handles, s \in Sessions : KillCall(h, s)
    \/ \E h \in Handles : KillSendCancel(h)
    \/ \E h \in Handles : KillGetEntry(h)
    \/ \E h \in Handles : KillPersist(h)
    \/ Shutdown
    \/ Restart
    \/ \E h \in Handles : RecoverTerminal(h)
    \/ \E h \in Handles, has_session \in BOOLEAN : RecoverProbe(h, has_session)
    \/ \E h \in Handles : RecoverReadopt(h)
    \/ \E h \in Handles : RecoverLost(h)
    \/ \E h \in Handles : RecoverCallback(h)

\* ------------------------------------------------------------------------
\* cleanup_old (registry.rs)
\* ------------------------------------------------------------------------

\* Largest max_age_secs a cleanup is called with.
MaxAge == 1

\* (now - completed_at).to_std().unwrap_or(Duration::ZERO).
Age(t, completed_at) == IF t >= completed_at THEN t - completed_at ELSE 0

\* A test that takes a missing completed_at for the epoch.
is_old_undated(meta, t, max_age) == Age(t, meta.completed_at) > max_age

\* Lines 630-636: the status is terminal, completed_at is Some, and the age
\* is above max_age.
is_old(meta, t, max_age) ==
    /\ is_terminal(meta.status)
    /\ meta.completed_at # 0
    /\ Age(t, meta.completed_at) > max_age

\* The call: position, the handles still to remove, the handle and the meta
\* of the entry just removed, and the now and max_age of the scan.
Cleaner(pc, to_remove, cur, removed, t, max_age) ==
    [pc |-> pc, to_remove |-> to_remove, cur |-> cur, removed |-> removed,
     now |-> t, max_age |-> max_age]

NoCleaner == Cleaner("idle", {}, None, NoMeta, 0, 0)

CleanupIdle ==
    /\ log_file = [h \in Handles |-> FALSE]
    /\ cleaner = NoCleaner

\* Where the for loop over to_remove goes next.
CleanerAfter(c, rest) ==
    IF rest = {} THEN NoCleaner
    ELSE Cleaner("remove", rest, None, NoMeta, c.now, c.max_age)

\* cleanup_old, lines 625-638: the scan of the entries.
CleanupScan(max_age) ==
    /\ cleaner.pc = "idle"
    /\ LET to_remove == {h \in Handles : entries[h] # NoEntry
                                          /\ is_old(entries[h].meta, now, max_age)} IN
       cleaner' = CleanerAfter(Cleaner("idle", {}, None, NoMeta, now, max_age), to_remove)
    /\ UNCHANGED <<regVars, log_file>>
    /\ UNCHANGED outsideCleanup

\* Line 641: entries.remove(&handle_id).
CleanupRemoveEntry(h) ==
    /\ cleaner.pc = "remove"
    /\ h \in cleaner.to_remove
    /\ guard[h] = None
    /\ IF entries[h] = NoEntry
       THEN /\ cleaner' = CleanerAfter(cleaner, cleaner.to_remove \ {h})
            /\ UNCHANGED entries
       ELSE /\ entries' = [entries EXCEPT ![h] = NoEntry]
            /\ cleaner' = [cleaner EXCEPT !.pc = "log", !.cur = h,
                                          !.removed = entries[h].meta]
    /\ UNCHANGED <<disk, now, task, cancel_rx, killer, guard, fired, rec, restarts,
                   kill_ret, transitions, log_file>>
    /\ UNCHANGED outsideCleanup

\* Line 643: remove_file(&entry.meta.log_path).
CleanupRemoveLog ==
    /\ cleaner.pc = "log"
    /\ log_file' = [log_file EXCEPT ![cleaner.cur] = FALSE]
    /\ cleaner' = [cleaner EXCEPT !.pc = "meta"]
    /\ UNCHANGED regVars
    /\ UNCHANGED outsideCleanup

\* Lines 645-648: remove_file(&meta_path).
CleanupRemoveMeta ==
    /\ cleaner.pc = "meta"
    /\ disk' = [disk EXCEPT ![cleaner.cur] = NoMeta]
    /\ cleaner' = CleanerAfter(cleaner, cleaner.to_remove \ {cleaner.cur})
    /\ UNCHANGED <<entries, now, task, cancel_rx, killer, guard, fired, rec, restarts,
                   kill_ret, transitions, log_file>>
    /\ UNCHANGED outsideCleanup

\* The registry with the periodic cleanup task; handle ids are ULIDs, so a
\* handle that has ended is not spawned again.
CleanupNext ==
    \/ Tick
    \/ \E h \in Handles, s \in Sessions, tmux \in BOOLEAN, wait \in BOOLEAN :
          transitions[h] = <<>> /\ Spawn(h, s, tmux, wait, FALSE)
    \/ \E h \in Handles, status \in {"Completed", "Failed"} : ProcessExits(h, status)
    \/ \E h \in Handles : TimesOut(h)
    \/ \E h \in Handles : CancelObserved(h)
    \/ \E h \in Handles : MarkStatus(h)
    \/ \E h \in Handles : PersistStatus(h)
    \/ \E h \in Handles : MonitorCallback(h)
    \/ \E h \in Handles, s \in Sessions : KillCall(h, s)
    \/ \E h \in Handles : KillSendCancel(h)
    \/ \E h \in Handles : KillGetEntry(h)
    \/ \E h \in Handles : KillPersist(h)
    \/ \E max_age \in 0..MaxAge : CleanupScan(max_age)
    \/ \E h \in Handles : CleanupRemoveEntry(h)
    \/ CleanupRemoveLog
    \/ CleanupRemoveMeta

\* ------------------------------------------------------------------------
\* Screen watcher (watcher.rs)
\* ------------------------------------------------------------------------

\* Latest instant of the watcher's clock, in seconds.
MaxWatchClock == 8

\* Largest silence_timeout, in seconds.
MaxSilence == 2

\* Largest size of the log file.
MaxLogSize == 2

\* The poll interval start_screen_watcher passes, in seconds.
PollInterval == 2

\* silence_start: None.
NoInstant == -1

\* The locals of the task: last_size, silence_start, fired_for_silence, and
\* the instant of the interval's next tick.
Watcher(pc, last_size, silence_start, fired_for_silence, next_tick) ==
    [pc |-> pc, last_size |-> last_size, silence_start |-> silence_start,
     fired_for_silence |-> fired_for_silence, next_tick |-> next_tick]

NoWatcher == Watcher("stopped", 0, NoInstant, FALSE, 0)

WatcherIdle ==
    /\ watcher = NoWatcher
    /\ wenv = [now |-> 0, log_size |-> 0, last_change |-> 0, running |-> FALSE,
               silence_timeout |-> 0]
    /\ halted = <<>>

\* spawn_screen_watcher on a running process, with any silence_timeout and a
\* log that may already hold output; the first tick of the interval is due
\* at once.
WatcherInit ==
    /\ watcher = Watcher("run", 0, NoInstant, FALSE, 0)
    /\ \E silence_timeout \in 0..MaxSilence, size \in 0..1 :
          wenv = [now |-> 0, log_size |-> size, last_change |-> 0, running |-> TRUE,
                  silence_timeout |-> silence_timeout]
    /\ halted = <<>>

\* A watcher that tracks silence whether it has fired or not.
tracks_silence_always(w) == TRUE

\* Line 59: else if !fired_for_silence.
tracks_silence(w) == ~w.fired_for_silence

\* Line 61: silence_start.get_or_insert(Instant::now()).
get_or_insert(silence_start, t) == IF silence_start = NoInstant THEN t ELSE silence_start

\* The body of the interval.tick() branch at instant t: the watcher
\* afterwards and whether fire_screen_halted_callback was called.
\* metadata_ok is whether the metadata of the log file could be read.
poll(w, t, running, metadata_ok, current_size, silence_timeout) ==
    IF ~running THEN [w |-> [w EXCEPT !.pc = "stopped"], fire |-> FALSE]
    ELSE IF ~metadata_ok THEN [w |-> w, fire |-> FALSE]
    ELSE IF current_size # w.last_size
    THEN [w |-> [w EXCEPT !.last_size = current_size, !.silence_start = NoInstant,
                          !.fired_for_silence = FALSE],
          fire |-> FALSE]
    ELSE IF tracks_silence(w)
    THEN LET start == get_or_insert(w.silence_start, t) IN
         IF t - start >= silence_timeout
         THEN [w |-> [w EXCEPT !.silence_start = start, !.fired_for_silence = TRUE],
               fire |-> TRUE]
         ELSE [w |-> [w EXCEPT !.silence_start = start], fire |-> FALSE]
    ELSE [w |-> w, fire |-> FALSE]

\* A second passes.
WatchClockTick ==
    /\ wenv.now < MaxWatchClock
    /\ wenv' = [wenv EXCEPT !.now = @ + 1]
    /\ UNCHANGED <<watcher, halted>>
    /\ UNCHANGED outsideWatcher

\* The process writes to its log.
LogGrows ==
    /\ wenv.running
    /\ wenv.log_size < MaxLogSize
    /\ wenv' = [wenv EXCEPT !.log_size = @ + 1, !.last_change = wenv.now]
    /\ UNCHANGED <<watcher, halted>>
    /\ UNCHANGED outsideWatcher

\* The process ends: is_running is false from now on.
WatchedProcessEnds ==
    /\ wenv.running
    /\ wenv' = [wenv EXCEPT !.running = FALSE]
    /\ UNCHANGED <<watcher, halted>>
    /\ UNCHANGED outsideWatcher

\* The interval ticks (on time or late) and the watcher polls the log size.
WatcherPoll(metadata_ok) ==
    /\ watcher.pc = "run"
    /\ wenv.now >= watcher.next_tick
    /\ LET r == poll(watcher, wenv.now, wenv.running, metadata_ok, wenv.log_size,
                     wenv.silence_timeout) IN
       /\ watcher' = [r.w EXCEPT !.next_tick = @ + PollInterval]
       /\ halted' = IF r.fire
                    THEN Append(halted, [at |-> wenv.now, size |-> wenv.log_size,
                                         last_change |-> wenv.last_change])
                    ELSE halted
    /\ UNCHANGED wenv
    /\ UNCHANGED outsideWatcher

\* The cancel_rx branch: stop_screen_watcher or kill.
WatcherCancelled ==
    /\ watcher.pc = "run"
    /\ watcher' = [watcher EXCEPT !.pc = "stopped"]
    /\ UNCHANGED <<wenv, halted>>
    /\ UNCHANGED outsideWatcher

WatcherNext ==
    \/ WatchClockTick
    \/ LogGrows
    \/ WatchedProcessEnds
    \/ \E metadata_ok \in BOOLEAN : WatcherPoll(metadata_ok)
    \/ WatcherCancelled

\* ------------------------------------------------------------------------
\* SSE stream of a session (handlers/v1/sessions.rs: AccumulatingStream)
\* ------------------------------------------------------------------------

\* Tokens the inner stream gives at most.
MaxSseTokens == 3

\* Token contents, as sequences of characters; a token may be empty.
TokenTexts == {<<>>, <<"a">>, <<"b">>}

\* What a poll of the inner stream is ready with: a token, Done, the idle
\* timeout, an LLM error, or the end of the stream.
InnerItems ==
    [kind : {"Token"}, content : TokenTexts]
        \cup [kind : {"Done", "Timeout", "Llm", "None"}, content : {<<>>}]

\* AccumulatingStream::new.
\* ended: the client has been given Ready(None).
NewStream == [started |-> FALSE, finished |-> FALSE, accumulated |-> <<>>,
              dropped |-> FALSE, ended |-> FALSE]

\* No stream has been built.
SseIdle ==
    /\ sse = [NewStream EXCEPT !.dropped = TRUE]
    /\ sse_received = <<>>
    /\ sse_out = <<>>
    /\ saved = <<>>

SseInit ==
    /\ sse = NewStream
    /\ sse_received = <<>>
    /\ sse_out = <<>>
    /\ saved = <<>>

\* save_accumulated that adds a message whatever was accumulated.
save_accumulated_unchecked(s, msgs) ==
    [s |-> [s EXCEPT !.accumulated = <<>>], msgs |-> Append(msgs, s.accumulated)]

\* save_accumulated: if anything was accumulated it is taken out of the
\* stream and added to the session as an assistant message.
save_accumulated(s, msgs) ==
    IF s.accumulated # <<>>
    THEN [s |-> [s EXCEPT !.accumulated = <<>>], msgs |-> Append(msgs, s.accumulated)]
    ELSE [s |-> s, msgs |-> msgs]

\* The SSE event of an inner item that ends the stream.
FinalEvent(kind) ==
    CASE kind = "Done"    -> <<"done">>
      [] kind = "Timeout" -> <<"error: Stream idle timeout">>
      [] kind = "Llm"     -> <<"error: llm">>
      [] OTHER            -> <<>>

\* poll_next once the stream is finished: Ready(None).
SsePollFinished ==
    /\ ~sse.dropped
    /\ sse.finished
    /\ sse' = [sse EXCEPT !.ended = TRUE]
    /\ UNCHANGED <<sse_received, sse_out, saved>>
    /\ UNCHANGED outsideSse

\* The first poll_next: the start event.
SsePollStart ==
    /\ ~sse.dropped
    /\ ~sse.finished
    /\ ~sse.started
    /\ sse' = [sse EXCEPT !.started = TRUE]
    /\ sse_out' = Append(sse_out, "start")
    /\ UNCHANGED <<sse_received, saved>>
    /\ UNCHANGED outsideSse

\* poll_next with a token ready: it is accumulated and sent on.
SsePollToken(item) ==
    /\ ~sse.dropped
    /\ ~sse.finished
    /\ sse.started
    /\ item.kind = "Token"
    /\ Len(sse_out) <= MaxSseTokens
    /\ sse' = [sse EXCEPT !.accumulated = @ \o item.content]
    /\ sse_received' = sse_received \o item.content
    /\ sse_out' = Append(sse_out, "token")
    /\ UNCHANGED saved
    /\ UNCHANGED outsideSse

\* poll_next with Done, the timeout, an LLM error or the end of the inner
\* stream ready: finished is set, the accumulated text saved, and the event,
\* if there is one, sent.
SsePollFinal(item) ==
    /\ ~sse.dropped
    /\ ~sse.finished
    /\ sse.started
    /\ item.kind # "Token"
    /\ LET r == save_accumulated([sse EXCEPT !.finished = TRUE], saved) IN
       /\ sse' = [r.s EXCEPT !.ended = (item.kind = "None")]
       /\ saved' = r.msgs
    /\ sse_out' = sse_out \o FinalEvent(item.kind)
    /\ UNCHANGED sse_received
    /\ UNCHANGED outsideSse

\* Drop: the client went away, or the response is complete.
SseDrop ==
    /\ ~sse.dropped
    /\ LET r == IF ~sse.finished /\ sse.accumulated # <<>>
                THEN save_accumulated(sse, saved)
                ELSE [s |-> sse, msgs |-> saved] IN
       /\ sse' = [r.s EXCEPT !.dropped = TRUE]
       /\ saved' = r.msgs
    /\ UNCHANGED <<sse_received, sse_out>>
    /\ UNCHANGED outsideSse

SseNext ==
    \/ SsePollFinished
    \/ SsePollStart
    \/ \E item \in InnerItems : SsePollToken(item)
    \/ \E item \in InnerItems : SsePollFinal(item)
    \/ SseDrop

\* ------------------------------------------------------------------------
\* OpenAI stream parser (llm/openai.rs: StreamParser)
\* ------------------------------------------------------------------------

\* Chunks with a delta in a response, at most.
MaxDeltas == 2

\* Bytes in a transport chunk, at most.
MaxChunk == 4

\* The characters of a delta: one of one byte, one of two bytes.
Chars == {"a", "é"}

\* Delta contents: empty (a role-only or usage chunk) or one character.
DeltaContents == {<<>>, <<"a">>, <<"é">>}

\* The bytes of a character in UTF-8: "L" and "C" are the lead and the
\* continuation byte of the two-byte character.
Utf8(c) == IF c = "é" THEN <<"L", "C">> ELSE <<c>>

RECURSIVE Utf8All(_)
Utf8All(text) == IF text = <<>> THEN <<>> ELSE Utf8(Head(text)) \o Utf8All(Tail(text))

RECURSIVE Flatten(_)
Flatten(seqs) == IF seqs = <<>> THEN <<>> ELSE Head(seqs) \o Flatten(Tail(seqs))

\* The SSE bytes of a response: one `data: {chunk}` event per delta, then
\* `data: [DONE]`. "data" is the bytes of the line up to the delta content
\* (the rest of the JSON goes with the newline), "done" the bytes of
\* `data: [DONE]`, "nl" a newline.
RECURSIVE DataEvents(_)
DataEvents(deltas) ==
    IF deltas = <<>> THEN <<>>
    ELSE <<"data">> \o Utf8All(Head(deltas)) \o <<"nl", "nl">> \o DataEvents(Tail(deltas))

StreamBytes(deltas) == DataEvents(deltas) \o <<"done", "nl", "nl">>

\* std::str::from_utf8 on a transport chunk: an error if a character's
\* bytes are not all in the chunk, else the text.
RECURSIVE from_utf8(_)
from_utf8(bytes) ==
    IF bytes = <<>> THEN [ok |-> TRUE, text |-> <<>>]
    ELSE IF Head(bytes) = "C" THEN [ok |-> FALSE, text |-> <<>>]
    ELSE IF Head(bytes) = "L"
    THEN IF Len(bytes) >= 2 /\ bytes[2] = "C"
         THEN LET rest == from_utf8(SubSeq(bytes, 3, Len(bytes))) IN
              [ok |-> rest.ok, text |-> <<"é">> \o rest.text]
         ELSE [ok |-> FALSE, text |-> <<>>]
    ELSE LET rest == from_utf8(Tail(bytes)) IN
         [ok |-> rest.ok, text |-> <<Head(bytes)>> \o rest.text]

\* buffer.find('\n'): the position of the first newline, 0 if there is none.
find_newline(buffer) ==
    IF \E i \in 1..Len(buffer) : buffer[i] = "nl"
    THEN CHOOSE i \in 1..Len(buffer) : buffer[i] = "nl" /\ \A j \in 1..(i - 1) : buffer[j] # "nl"
    ELSE 0

\* What a line gives: Done for `data: [DONE]`, a Token for a data line whose
\* JSON parses and has a non-empty delta content, else nothing.
parse_line(line) ==
    IF line = <<"done">> THEN <<[kind |-> "Done", content |-> <<>>]>>
    ELSE IF /\ Len(line) >= 2
            /\ line[1] = "data"
            /\ \A i \in 2..Len(line) : line[i] \in Chars
    THEN <<[kind |-> "Token", content |-> Tail(line)]>>
    ELSE <<>>

\* The inner byte stream: the bytes it has still to deliver, whether it has
\* reported its end (Poll::Ready(None)), and whether it was polled after that.
Inner(deltas, bytes) ==
    [deltas |-> deltas, bytes |-> bytes, ended |-> FALSE, polled_after_end |-> FALSE]

\* pc is "loop" while poll_next is in its loop or will enter it when polled,
\* "returned" once it has returned with done set.
NoParser == [buffer |-> <<>>, done |-> TRUE, rejected |-> 0, pc |-> "returned"]
NewParser == [buffer |-> <<>>, done |-> FALSE, rejected |-> 0, pc |-> "loop"]

OpenAiIdle ==
    /\ oa_in = Inner(<<>>, <<>>)
    /\ oa = NoParser
    /\ oa_out = <<>>

\* StreamParser::new on the byte stream of any response.
OpenAiInit ==
    /\ \E n \in 0..MaxDeltas : \E deltas \in [1..n -> DeltaContents] :
          oa_in = Inner(deltas, StreamBytes(deltas))
    /\ oa = NewParser
    /\ oa_out = <<>>

\* StreamParser::new on any finite byte stream: a response cut off after any
\* number of its bytes, so that it may end without `data: [DONE]`, inside a
\* line, or without the last newline.
OpenAiAnyInit ==
    /\ \E n \in 0..MaxDeltas : \E deltas \in [1..n -> DeltaContents] :
          \E k \in 0..Len(StreamBytes(deltas)) :
             oa_in = Inner(deltas, SubSeq(StreamBytes(deltas), 1, k))
    /\ oa = NewParser
    /\ oa_out = <<>>

\* poll_next, lines 130-154: a complete line is taken from the buffer.
OaParseLine ==
    /\ ~oa.done
    /\ find_newline(oa.buffer) # 0
    /\ LET line_end == find_newline(oa.buffer)
           line == SubSeq(oa.buffer, 1, line_end - 1)
           evs == parse_line(line) IN
       /\ oa' = [oa EXCEPT !.buffer = SubSeq(oa.buffer, line_end + 1, Len(oa.buffer)),
                           !.done = (evs # <<>> /\ evs[1].kind = "Done"),
                           !.pc = IF evs # <<>> /\ evs[1].kind = "Done"
                                  THEN "returned" ELSE "loop"]
       /\ oa_out' = oa_out \o evs
    /\ UNCHANGED oa_in
    /\ UNCHANGED outsideOpenAi

\* poll_next, lines 158-163: the inner stream gives the next n bytes.
OaReadChunk(n) ==
    /\ ~oa.done
    /\ find_newline(oa.buffer) = 0
    /\ n <= Len(oa_in.bytes)
    /\ LET r == from_utf8(SubSeq(oa_in.bytes, 1, n)) IN
       oa' = IF r.ok THEN [oa EXCEPT !.buffer = @ \o r.text]
             ELSE [oa EXCEPT !.rejected = @ + 1]
    /\ oa_in' = [oa_in EXCEPT !.bytes = SubSeq(@, n + 1, Len(@))]
    /\ UNCHANGED oa_out
    /\ UNCHANGED outsideOpenAi

\* poll_next, lines 167-173: the inner stream has ended. With text left in
\* the buffer no event is returned: done is set and the loop goes on.
OaReadEnd ==
    /\ ~oa.done
    /\ find_newline(oa.buffer) = 0
    /\ oa_in.bytes = <<>>
    /\ oa' = [oa EXCEPT !.done = TRUE,
                        !.pc = IF oa.buffer = <<>> THEN "returned" ELSE "loop"]
    /\ oa_out' = IF oa.buffer = <<>>
                 THEN Append(oa_out, [kind |-> "Done", content |-> <<>>])
                 ELSE oa_out
    /\ oa_in' = [oa_in EXCEPT !.ended = TRUE]
    /\ UNCHANGED outsideOpenAi

\* What an ended stream may answer when polled again; the Stream trait leaves
\* it open.
AfterEnd == {"none", "pending"}

\* poll_next, lines 131 and 156-175, in the loop with done set: the buffer
\* holds no newline, so the ended inner stream is polled again. On None the
\* loop goes round once more; on Pending poll_next returns Pending, and is
\* at its end when polled next (lines 126-128).
OaPollEnded(answer) ==
    /\ oa.done
    /\ oa.pc = "loop"
    /\ oa_in' = [oa_in EXCEPT !.polled_after_end = TRUE]
    /\ oa' = [oa EXCEPT !.pc = IF answer = "pending" THEN "returned" ELSE "loop"]
    /\ UNCHANGED oa_out
    /\ UNCHANGED outsideOpenAi

OpenAiNext ==
    \/ OaParseLine
    \/ \E n \in 1..MaxChunk : OaReadChunk(n)
    \/ OaReadEnd

\* Over a stream that may end inside a line the ended stream is polled again.
OpenAiAnyNext ==
    \/ OpenAiNext
    \/ \E answer \in AfterEnd : OaPollEnded(answer)

\* ------------------------------------------------------------------------
\* Before-tool hooks (tools/hooks.rs: check_skip_duplicate)
\* ------------------------------------------------------------------------

\* Messages in the conversation a hook is checked against, at most.
MaxConversation == 4

\* The argument keys of the tool; an argument with value 0 is absent.
ArgKeys == {"days", "query"}
HookArgs == {[days |-> 1, query |-> 1], [days |-> 1, query |-> 2],
             [days |-> 0, query |-> 1], [days |-> 2, query |-> 1]}

\* tool_name:action of a call.
Invocations == {"memory:recall", "memory:search"}

\* match_args of a SkipDuplicate hook.
MatchArgs == {{}, {"days"}, {"days", "query"}}

CallIds == {"call_1", "call_2"}

\* Contents of a tool result, as the text up to the first space and the
\* rest: masked by the context builder, or not.
ResultContents == {<<"[result masked", "to save context]">>, <<"3 memories">>}

\* An assistant message with one tool call; a tool-result message.
AssistantCall(id, invocation, arguments) ==
    [role |-> "assistant", id |-> id, invocation |-> invocation,
     arguments |-> arguments, content |-> <<>>]
ToolResult(id, text) ==
    [role |-> "tool", id |-> id, invocation |-> None,
     arguments |-> [days |-> 0, query |-> 0], content |-> text]

HookMessages ==
    {AssistantCall(id, inv, a) : id \in CallIds, inv \in Invocations, a \in HookArgs}
        \cup {ToolResult(id, c) : id \in CallIds, c \in ResultContents}

\* content_str().starts_with("[result masked").
starts_with_masked(text) == text # <<>> /\ text[1] = "[result masked"

\* An identity made of every argument of the call.
extract_identity_all(arguments, keys) ==
    [k \in {k \in ArgKeys : arguments[k] # 0} |-> arguments[k]]

\* extract_identity: the values of the keys the arguments have.
extract_identity(arguments, keys) ==
    [k \in {k \in keys : arguments[k] # 0} |-> arguments[k]]

\* messages[i + 1..].iter().find(role == Tool && tool_call_id == id): the
\* position of the first such message, 0 if there is none.
find_result(msgs, i, id) ==
    LET hits == {j \in (i + 1)..Len(msgs) : msgs[j].role = "tool" /\ msgs[j].id = id} IN
    IF hits = {} THEN 0 ELSE CHOOSE j \in hits : \A k \in hits : j <= k

\* The for loop of check_skip_duplicate from message i on.
RECURSIVE scan_messages(_, _, _)
scan_messages(ctx, current_identity, i) ==
    IF i > Len(ctx.messages) THEN "Allow"
    ELSE LET msg == ctx.messages[i] IN
         IF msg.role # "assistant" THEN scan_messages(ctx, current_identity, i + 1)
         ELSE IF msg.invocation # ctx.invocation
         THEN scan_messages(ctx, current_identity, i + 1)
         ELSE IF extract_identity(msg.arguments, ctx.match_args) # current_identity
         THEN scan_messages(ctx, current_identity, i + 1)
         ELSE LET j == find_result(ctx.messages, i, msg.id) IN
              IF j # 0 /\ ~starts_with_masked(ctx.messages[j].content)
              THEN "Reject"
              ELSE scan_messages(ctx, current_identity, i + 1)

\* check_skip_duplicate.
check_skip_duplicate(ctx) ==
    IF ctx.match_args = {} THEN "Allow"
    ELSE scan_messages(ctx, extract_identity(ctx.arguments, ctx.match_args), 1)

HooksIdle ==
    /\ hk_ctx = [messages |-> <<>>, invocation |-> None,
                 arguments |-> [days |-> 0, query |-> 0], match_args |-> {}]
    /\ hk_verdict = None

\* Any hook and any call, at the start of a conversation.
HooksInit ==
    /\ \E a \in HookArgs, m \in MatchArgs :
          hk_ctx = [messages |-> <<>>, invocation |-> "memory:recall",
                    arguments |-> a, match_args |-> m]
    /\ hk_verdict = None

\* The conversation grows by an assistant tool call with a fresh id or by
\* the result of a call.
HookConversationGrows(msg) ==
    /\ Len(hk_ctx.messages) < MaxConversation
    /\ \A i \in 1..Len(hk_ctx.messages) :
          ~(hk_ctx.messages[i].role = msg.role /\ hk_ctx.messages[i].id = msg.id)
    /\ msg.role = "tool" =>
          \E i \in 1..Len(hk_ctx.messages) :
             hk_ctx.messages[i].role = "assistant" /\ hk_ctx.messages[i].id = msg.id
    /\ hk_ctx' = [hk_ctx EXCEPT !.messages = Append(@, msg)]
    /\ hk_verdict' = None
    /\ UNCHANGED outsideHooks

\* The hook is run for the call.
HookCheck ==
    /\ hk_ctx.invocation # None
    /\ hk_verdict' = check_skip_duplicate(hk_ctx)
    /\ UNCHANGED hk_ctx
    /\ UNCHANGED outsideHooks

HooksNext ==
    \/ \E msg \in HookMessages : HookConversationGrows(msg)
    \/ HookCheck

\* ------------------------------------------------------------------------
\* Hook patterns (tools/hooks.rs: matches_hook_pattern)
\* ------------------------------------------------------------------------

\* Characters of a pattern and of an invocation, at most.
MaxPatternLen == 3
MaxInvocationLen == 3

\* Strings are sequences of characters.
InvocationChars == {"a", "b"}
PatternChars == InvocationChars \cup {"*"}

StringsOver(chars, n) == UNION {[1..k -> chars] : k \in 0..n}

GlobIdle ==
    /\ gl_pattern = <<>>
    /\ gl_invocation = <<>>
    /\ gl_result = [called |-> FALSE, matched |-> FALSE]

GlobInit ==
    /\ gl_pattern \in StringsOver(PatternChars, MaxPatternLen)
    /\ gl_invocation \in StringsOver(InvocationChars, MaxInvocationLen)
    /\ gl_result = [called |-> FALSE, matched |-> FALSE]

\* pattern.contains('*').
contains_star(pattern) == \E i \in 1..Len(pattern) : pattern[i] = "*"

\* pattern.split('*'): the pieces between the stars, empty ones included.
RECURSIVE split_star(_)
split_star(pattern) ==
    IF ~contains_star(pattern) THEN <<pattern>>
    ELSE LET i == CHOOSE i \in 1..Len(pattern) :
                     pattern[i] = "*" /\ \A j \in 1..(i - 1) : pattern[j] # "*"
         IN <<SubSeq(pattern, 1, i - 1)>> \o split_star(SubSeq(pattern, i + 1, Len(pattern)))

starts_with(s, prefix) ==
    Len(prefix) <= Len(s) /\ SubSeq(s, 1, Len(prefix)) = prefix
ends_with(s, suffix) ==
    Len(suffix) <= Len(s) /\ SubSeq(s, Len(s) - Len(suffix) + 1, Len(s)) = suffix

\* The offsets at which part occurs in s; s.find(part) is the least one.
occurrences(s, part) ==
    {i \in 0..(Len(s) - Len(part)) : SubSeq(s, i + 1, i + Len(part)) = part}

\* The for loop over parts[1..parts.len() - 1], from part k (1-based) on.
RECURSIVE middle_parts(_, _, _, _)
middle_parts(parts, k, pos, invocation) ==
    IF k > Len(parts) - 1 THEN TRUE
    ELSE IF parts[k] = <<>> THEN middle_parts(parts, k + 1, pos, invocation)
    ELSE LET found == occurrences(SubSeq(invocation, pos + 1, Len(invocation)), parts[k]) IN
         IF found = {} THEN FALSE
         ELSE LET at == CHOOSE i \in found : \A j \in found : i <= j
              IN middle_parts(parts, k + 1, pos + at + Len(parts[k]), invocation)

\* A match that compares the pattern verbatim, stars included.
matches_verbatim(pattern, invocation) == pattern = invocation

matches_hook_pattern(pattern, invocation) ==
    IF ~contains_star(pattern) THEN pattern = invocation
    ELSE LET parts == split_star(pattern)
             first == parts[1]
             last == parts[Len(parts)]
         IN IF first # <<>> /\ ~starts_with(invocation, first) THEN FALSE
            ELSE IF last # <<>> /\ ~ends_with(invocation, last) THEN FALSE
            ELSE middle_parts(parts, 2, Len(first), invocation)

GlobMatch ==
    /\ ~gl_result.called
    /\ gl_result' = [called |-> TRUE,
                     matched |-> matches_hook_pattern(gl_pattern, gl_invocation)]
    /\ UNCHANGED <<gl_pattern, gl_invocation>>
    /\ UNCHANGED outsideGlob

GlobNext == GlobMatch

\* ------------------------------------------------------------------------
\* DependsOn hooks (tools/hooks.rs: check_depends_on)
\* ------------------------------------------------------------------------

\* Messages in the conversation a DependsOn hook is checked against, at most.
MaxDependsMessages == 2

\* hook.prior: None, or a pattern.
Priors == {<<>>, <<"a", ":", "a">>, <<"a", ":", "*">>, <<"*">>}
NoPrior == <<>>

\* hook.match_arg: None, or the key "handle".
MatchArgKeys == {None, "handle"}

\* A tool call of a message: its name, whether its arguments parse as JSON,
\* their action (<<>> when absent) and their handle (0 when absent).
ToolCall(name, valid, action, handle) ==
    [name |-> name, valid |-> valid, action |-> action, handle |-> handle]

DependsToolCalls ==
    {ToolCall(<<"a">>, TRUE, action, handle) :
        action \in {<<>>, <<"a">>, <<"b">>}, handle \in 0..2}
        \cup {ToolCall(<<"a">>, FALSE, <<>>, 0)}

\* A message: its role and tool_calls (None, or a list).
DependsMessage(role, has_tool_calls, calls) ==
    [role |-> role, has_tool_calls |-> has_tool_calls, tool_calls |-> calls]

DependsMessages ==
    {DependsMessage("assistant", TRUE, <<tc>>) : tc \in DependsToolCalls}
        \cup {DependsMessage("assistant", TRUE,
                             <<ToolCall(<<"a">>, TRUE, <<"b">>, 1), ToolCall(<<"a">>, TRUE, <<"a">>, h)>>) :
                 h \in 1..2}
        \cup {DependsMessage("user", FALSE, <<>>),
              DependsMessage("assistant", FALSE, <<>>),
              DependsMessage("user", TRUE, <<ToolCall(<<"a">>, TRUE, <<"a">>, 1)>>)}

DependsIdle ==
    /\ dp_hook = [prior |-> NoPrior, match_arg |-> None]
    /\ dp_ctx = [handle |-> 0, messages |-> <<>>, started |-> FALSE]
    /\ dp_verdict = [kind |-> None, names |-> <<>>]

\* Any DependsOn hook and any current call, at the start of a conversation.
DependsInit ==
    /\ dp_hook \in [prior : Priors, match_arg : MatchArgKeys]
    /\ dp_ctx \in [handle : 0..2, messages : {<<>>}, started : {TRUE}]
    /\ dp_verdict = [kind |-> None, names |-> <<>>]

\* build_invocation_from_tool_call: name:action, or the name when the
\* arguments have no action or do not parse.
build_invocation_from_tool_call(tc) ==
    IF tc.valid /\ tc.action # <<>> THEN tc.name \o <<":">> \o tc.action ELSE tc.name

\* serde_json::from_str(arguments).unwrap_or_default().get(key): 0 is None.
prior_value(tc, key) == IF tc.valid /\ key = "handle" THEN tc.handle ELSE 0

\* hook.match_arg.and_then(|key| ctx.arguments.get(key)).
current_arg_value(hook, ctx) == IF hook.match_arg = None THEN 0 ELSE ctx.handle

\* A tool call that satisfies the hook whatever its arguments.
satisfies_unkeyed(hook, ctx, tc) ==
    matches_hook_pattern(hook.prior, build_invocation_from_tool_call(tc))

\* The body of the inner for loop: whether tc makes the hook allow.
satisfies(hook, ctx, tc) ==
    /\ matches_hook_pattern(hook.prior, build_invocation_from_tool_call(tc))
    /\ hook.match_arg # None => prior_value(tc, hook.match_arg) = current_arg_value(hook, ctx)

\* The inner for loop over the tool calls of one message, from call k on.
RECURSIVE any_call_satisfies(_, _, _, _)
any_call_satisfies(hook, ctx, calls, k) ==
    IF k > Len(calls) THEN FALSE
    ELSE IF satisfies(hook, ctx, calls[k]) THEN TRUE
    ELSE any_call_satisfies(hook, ctx, calls, k + 1)

\* The outer loop, ctx.messages.iter().rev(), from message i down.
RECURSIVE walk_back(_, _, _)
walk_back(hook, ctx, i) ==
    IF i < 1 THEN FALSE
    ELSE LET msg == ctx.messages[i] IN
         IF ~msg.has_tool_calls THEN walk_back(hook, ctx, i - 1)
         ELSE IF msg.role # "assistant" THEN walk_back(hook, ctx, i - 1)
         ELSE IF any_call_satisfies(hook, ctx, msg.tool_calls, 1) THEN TRUE
         ELSE walk_back(hook, ctx, i - 1)

\* check_depends_on; the reason of a rejection is kept as what it names.
check_depends_on(hook, ctx) ==
    IF hook.prior = NoPrior THEN [kind |-> "Allow", names |-> <<>>]
    ELSE IF walk_back(hook, ctx, Len(ctx.messages)) THEN [kind |-> "Allow", names |-> <<>>]
    ELSE [kind |-> "Reject", names |-> hook.prior]

DependsConversationGrows(msg) ==
    /\ dp_ctx.started
    /\ Len(dp_ctx.messages) < MaxDependsMessages
    /\ dp_ctx' = [dp_ctx EXCEPT !.messages = Append(@, msg)]
    /\ dp_verdict' = [kind |-> None, names |-> <<>>]
    /\ UNCHANGED dp_hook
    /\ UNCHANGED outsideDepends

\* The hook is run for the current call.
DependsCheck ==
    /\ dp_ctx.started
    /\ dp_verdict' = check_depends_on(dp_hook, dp_ctx)
    /\ UNCHANGED <<dp_hook, dp_ctx>>
    /\ UNCHANGED outsideDepends

DependsNext ==
    \/ \E msg \in DependsMessages : DependsConversationGrows(msg)
    \/ DependsCheck

\* ------------------------------------------------------------------------
\* write_input to a subprocess (registry.rs: write_input, write_stdin_inner)
\* ------------------------------------------------------------------------

\* write_input calls, at most.
MaxWriteCalls == 3

\* Writes a write_all takes to get its text out.
TextParts == 2

Callers == {"u1", "u2"}

\* The text of a caller, in parts.
TextOf(u) == [i \in 1..TextParts |-> u]

\* A call: where it is, what of its text it has written, what it returned.
WriteCall(pc, written, failed, result) ==
    [pc |-> pc, written |-> written, failed |-> failed, result |-> result]

\* The entry of a running subprocess of session s1, its stdin piped.
WriteInputIdle ==
    /\ wi_entry = [exists |-> TRUE, session_id |-> "s1", terminal |-> FALSE, stdin |-> TRUE]
    /\ wi_lock = None
    /\ wi = [u \in Callers |-> WriteCall("idle", 0, FALSE, None)]
    /\ wi_pipe = <<>>
    /\ wi_calls = 0

\* Lines 412-422: the checks of write_input, under the entry's guard.
write_input_check(entry, session_id) ==
    IF ~entry.exists THEN "NotFound"
    ELSE IF entry.session_id # session_id THEN "WrongSession"
    ELSE IF entry.terminal THEN "NotRunning"
    ELSE "Ok"

\* write_input up to write_stdin_inner's lock().await.
WriteInputCall(u, session_id) ==
    /\ wi[u].pc = "idle"
    /\ wi_calls < MaxWriteCalls
    /\ wi_calls' = wi_calls + 1
    /\ LET checked == write_input_check(wi_entry, session_id) IN
       wi' = [wi EXCEPT ![u] = IF checked = "Ok"
                               THEN WriteCall("lock", 0, FALSE, None)
                               ELSE WriteCall("idle", 0, FALSE, checked)]
    /\ UNCHANGED <<wi_entry, wi_lock, wi_pipe>>
    /\ UNCHANGED outsideWriteInput

\* Lines 450-456: what the get_mut block returns.
take_stdin(entry) ==
    IF ~entry.exists THEN "NotFound"
    ELSE IF entry.terminal THEN "NotRunning"
    ELSE IF ~entry.stdin THEN "NoStdin"
    ELSE "Ok"

\* stdin_locks: one mutex per handle; lock().await waits until it is free.
StdinLockFree == wi_lock = None

\* Lines 444-458: the lock is acquired and stdin taken out of the entry; an
\* early return drops the lock guard.
WriteTakeStdin(u) ==
    /\ wi[u].pc = "lock"
    /\ StdinLockFree
    /\ IF take_stdin(wi_entry) = "Ok"
       THEN /\ wi_entry' = [wi_entry EXCEPT !.stdin = FALSE]
            /\ wi_lock' = u
            /\ wi' = [wi EXCEPT ![u].pc = "write"]
       ELSE /\ wi' = [wi EXCEPT ![u] = WriteCall("idle", 0, FALSE, take_stdin(wi_entry))]
            /\ UNCHANGED <<wi_entry, wi_lock>>
    /\ UNCHANGED <<wi_pipe, wi_calls>>
    /\ UNCHANGED outsideWriteInput

\* Lines 462-465: write_all, a write at a time; a failed write ends the block.
WriteAll(u, ok) ==
    /\ wi[u].pc = "write"
    /\ IF ok
       THEN /\ wi_pipe' = Append(wi_pipe, u)
            /\ wi' = [wi EXCEPT ![u].written = @ + 1,
                                ![u].pc = IF wi[u].written + 1 >= TextParts
                                          THEN "flush" ELSE "write"]
       ELSE /\ wi' = [wi EXCEPT ![u].failed = TRUE, ![u].pc = "restore"]
            /\ UNCHANGED wi_pipe
    /\ UNCHANGED <<wi_entry, wi_lock, wi_calls>>
    /\ UNCHANGED outsideWriteInput

\* Line 466: flush.
WriteFlush(u, ok) ==
    /\ wi[u].pc = "flush"
    /\ wi' = [wi EXCEPT ![u].failed = ~ok, ![u].pc = "restore"]
    /\ UNCHANGED <<wi_entry, wi_lock, wi_pipe, wi_calls>>
    /\ UNCHANGED outsideWriteInput

\* A write_stdin_inner that puts stdin back only after a write that worked.
restores_stdin_on_success(entry, failed) == entry.exists /\ ~failed

\* Lines 472-474: stdin goes back whenever the entry is still there.
restores_stdin(entry, failed) == entry.exists

\* Lines 471-476: stdin is returned to the entry, the result returned and
\* the lock guard dropped.
WriteRestore(u) ==
    /\ wi[u].pc = "restore"
    /\ wi_entry' = IF restores_stdin(wi_entry, wi[u].failed)
                   THEN [wi_entry EXCEPT !.stdin = TRUE] ELSE wi_entry
    /\ wi_lock' = None
    /\ wi' = [wi EXCEPT ![u].pc = "idle",
                        ![u].result = IF wi[u].failed THEN "Io" ELSE "Ok"]
    /\ UNCHANGED <<wi_pipe, wi_calls>>
    /\ UNCHANGED outsideWriteInput

\* The process exits and its monitor marks the entry terminal.
WriteProcessExits ==
    /\ wi_entry.exists
    /\ ~wi_entry.terminal
    /\ wi_entry' = [wi_entry EXCEPT !.terminal = TRUE]
    /\ UNCHANGED <<wi_lock, wi, wi_pipe, wi_calls>>
    /\ UNCHANGED outsideWriteInput

\* cleanup_old removes the terminal entry.
WriteEntryRemoved ==
    /\ wi_entry.exists
    /\ wi_entry.terminal
    /\ wi_entry' = [wi_entry EXCEPT !.exists = FALSE, !.stdin = FALSE]
    /\ UNCHANGED <<wi_lock, wi, wi_pipe, wi_calls>>
    /\ UNCHANGED outsideWriteInput

WriteInputNext ==
    \/ \E u \in Callers, s \in Sessions : WriteInputCall(u, s)
    \/ \E u \in Callers : WriteTakeStdin(u)
    \/ \E u \in Callers, ok \in BOOLEAN : WriteAll(u, ok)
    \/ \E u \in Callers, ok \in BOOLEAN : WriteFlush(u, ok)
    \/ \E u \in Callers : WriteRestore(u)
    \/ WriteProcessExits
    \/ WriteEntryRemoved

\* ------------------------------------------------------------------------
\* Screen watchers of a handle (registry.rs: start_watcher, stop_watcher,
\* kill; watcher.rs: spawn_screen_watcher)
\* ------------------------------------------------------------------------

\* Watchers started for the handle, at most.
MaxWatchers == 2

\* Callbacks fired, at most.
MaxFires == 2

WatcherIds == 1..MaxWatchers

\* A watcher task: where it is, whether its cancel_rx has been signalled,
\* its fired_for_silence.
ScreenWatcher(pc, cancelled, fired_for_silence) ==
    [pc |-> pc, cancelled |-> cancelled, fired_for_silence |-> fired_for_silence]

\* The entry of a running tmux process of session s1; watcher_cancel_tx is
\* the watcher whose cancel sender the entry holds, 0 for None.
ScreenIdle ==
    /\ sw_entry = [session_id |-> "s1", terminal |-> FALSE, watcher_cancel_tx |-> 0,
                   started |-> 0]
    /\ sw_watchers = [w \in WatcherIds |-> ScreenWatcher("unborn", FALSE, FALSE)]
    /\ sw_kill = [pc |-> "idle", result |-> None]
    /\ sw_fires = <<>>
    /\ sw_ret = None

\* tx.send(()) on the sender of watcher w, if any.
send_cancel(watchers, w) ==
    IF w = 0 THEN watchers ELSE [watchers EXCEPT ![w].cancelled = TRUE]

\* Lines 864-878 of start_watcher: the checks under the entry's guard.
start_watcher_check(entry, session_id) ==
    IF entry.session_id # session_id THEN "WrongSession"
    ELSE IF entry.terminal THEN "NotRunning"
    ELSE "Ok"

\* start_watcher: cancels the watcher in the entry, stores a new sender and
\* spawns the watcher task.
StartWatcher(session_id) ==
    /\ sw_entry.started < MaxWatchers
    /\ sw_ret' = start_watcher_check(sw_entry, session_id)
    /\ IF start_watcher_check(sw_entry, session_id) = "Ok"
       THEN LET w == sw_entry.started + 1 IN
            /\ sw_entry' = [sw_entry EXCEPT !.watcher_cancel_tx = w, !.started = w]
            /\ sw_watchers' = [send_cancel(sw_watchers, sw_entry.watcher_cancel_tx)
                                 EXCEPT ![w] = ScreenWatcher("select", FALSE, FALSE)]
       ELSE UNCHANGED <<sw_entry, sw_watchers>>
    /\ UNCHANGED <<sw_kill, sw_fires>>
    /\ UNCHANGED outsideScreen

\* stop_watcher: takes the sender out of the entry and signals it.
StopWatcher(session_id) ==
    /\ sw_entry.started > 0
    /\ IF sw_entry.session_id # session_id
       THEN /\ sw_ret' = "WrongSession"
            /\ UNCHANGED <<sw_entry, sw_watchers>>
       ELSE /\ sw_ret' = "Ok"
            /\ sw_entry' = [sw_entry EXCEPT !.watcher_cancel_tx = 0]
            /\ sw_watchers' = send_cancel(sw_watchers, sw_entry.watcher_cancel_tx)
    /\ UNCHANGED <<sw_kill, sw_fires>>
    /\ UNCHANGED outsideScreen

\* kill up to persist_meta(..).await: the get_mut block and the two sends.
ScreenKill ==
    /\ sw_kill.pc = "idle"
    /\ sw_kill.result = None
    /\ IF sw_entry.terminal
       THEN /\ sw_kill' = [pc |-> "idle", result |-> "NotRunning"]
            /\ UNCHANGED <<sw_entry, sw_watchers>>
       ELSE /\ sw_kill' = [pc |-> "persist", result |-> None]
            /\ sw_entry' = [sw_entry EXCEPT !.terminal = TRUE, !.watcher_cancel_tx = 0]
            /\ sw_watchers' = send_cancel(sw_watchers, sw_entry.watcher_cancel_tx)
    /\ UNCHANGED <<sw_fires, sw_ret>>
    /\ UNCHANGED outsideScreen

\* kill after persist_meta: Ok(()).
ScreenKillReturns ==
    /\ sw_kill.pc = "persist"
    /\ sw_kill' = [pc |-> "idle", result |-> "Ok"]
    /\ UNCHANGED <<sw_entry, sw_watchers, sw_fires, sw_ret>>
    /\ UNCHANGED outsideScreen

\* The process ends and its monitor marks the entry terminal.
ScreenProcessEnds ==
    /\ ~sw_entry.terminal
    /\ sw_entry' = [sw_entry EXCEPT !.terminal = TRUE]
    /\ UNCHANGED <<sw_watchers, sw_kill, sw_fires, sw_ret>>
    /\ UNCHANGED outsideScreen

\* watcher.rs 80-85.
is_running(entry) == ~entry.terminal

\* A tick that looks at the entry again after the metadata call.
still_running_after_metadata(entry, w) == is_running(entry) /\ entry.watcher_cancel_tx = w

\* The tick branch has no look at the entry or at cancel_rx after line 43.
still_running(entry, w) == TRUE

\* select! takes the tick branch: is_running, then the metadata call.
WatcherTick(w) ==
    /\ sw_watchers[w].pc = "select"
    /\ sw_watchers' = [sw_watchers EXCEPT ![w].pc =
                          IF is_running(sw_entry) THEN "metadata" ELSE "stopped"]
    /\ UNCHANGED <<sw_entry, sw_kill, sw_fires, sw_ret>>
    /\ UNCHANGED outsideScreen

\* select! takes the cancel branch.
WatcherCancelBranch(w) ==
    /\ sw_watchers[w].pc = "select"
    /\ sw_watchers[w].cancelled
    /\ sw_watchers' = [sw_watchers EXCEPT ![w].pc = "stopped"]
    /\ UNCHANGED <<sw_entry, sw_kill, sw_fires, sw_ret>>
    /\ UNCHANGED outsideScreen

\* Lines 48-67 after the metadata call: it failed, the size changed, or the
\* size is the same and the silence has or has not lasted silence_timeout.
\* A fire is recorded with what held when the callback was called.
WatcherAfterMetadata(w, seen) ==
    /\ sw_watchers[w].pc = "metadata"
    /\ Len(sw_fires) < MaxFires
    /\ IF seen = "changed"
       THEN /\ sw_watchers' = [sw_watchers EXCEPT ![w].pc = "select",
                                                  ![w].fired_for_silence = FALSE]
            /\ UNCHANGED sw_fires
       ELSE IF seen = "silent" /\ ~sw_watchers[w].fired_for_silence
                               /\ still_running(sw_entry, w)
       THEN /\ sw_watchers' = [sw_watchers EXCEPT ![w].pc = "firing"]
            /\ sw_fires' = Append(sw_fires,
                                  [watcher |-> w,
                                   terminal |-> sw_entry.terminal,
                                   killed |-> sw_kill.result = "Ok",
                                   latest |-> sw_entry.started])
       ELSE /\ sw_watchers' = [sw_watchers EXCEPT ![w].pc = "select"]
            /\ UNCHANGED sw_fires
    /\ UNCHANGED <<sw_entry, sw_kill, sw_ret>>
    /\ UNCHANGED outsideScreen

\* fire_screen_halted_callback(..).await is over: line 65.
WatcherFired(w) ==
    /\ sw_watchers[w].pc = "firing"
    /\ sw_watchers' = [sw_watchers EXCEPT ![w].pc = "select",
                                          ![w].fired_for_silence = TRUE]
    /\ UNCHANGED <<sw_entry, sw_kill, sw_fires, sw_ret>>
    /\ UNCHANGED outsideScreen

ScreenNext ==
    \/ \E s \in Sessions : StartWatcher(s)
    \/ \E s \in Sessions : StopWatcher(s)
    \/ ScreenKill
    \/ ScreenKillReturns
    \/ ScreenProcessEnds
    \/ \E w \in WatcherIds : WatcherTick(w)
    \/ \E w \in WatcherIds : WatcherCancelBranch(w)
    \/ \E w \in WatcherIds, seen \in {"error", "changed", "quiet", "silent"} :
          WatcherAfterMetadata(w, seen)
    \/ \E w \in WatcherIds : WatcherFired(w)

\* ------------------------------------------------------------------------
\* Handle-addressed operations (registry.rs: list_by_session, get_status,
\* read_log, capture, send_keys, write_input, kill, start_watcher,
\* stop_watcher)
\* ------------------------------------------------------------------------

\* Watchers started for one handle, at most.
MaxOpWatchers == 2

\* p1 is a tmux process of s1, p2 a subprocess of s2, p3 was never spawned.
OpHandles == {"p1", "p2", "p3"}

\* An entry: completed_at 0 is None, watcher_cancel_tx 0 is None and else
\* the watcher whose cancel sender it is.
OpEntry(exists, session_id, tmux, terminal, completed_at, cancel_tx, watcher_cancel_tx, watchers) ==
    [exists |-> exists, session_id |-> session_id, tmux |-> tmux, terminal |-> terminal,
     completed_at |-> completed_at, cancel_tx |-> cancel_tx,
     watcher_cancel_tx |-> watcher_cancel_tx, watchers |-> watchers]

NoOp == [op |-> None, handle |-> None, session_id |-> None, result |-> None,
         listed |-> {}, before |-> <<>>]

OpsIdle ==
    /\ op_entries = [h \in OpHandles |->
                        IF h = "p1" THEN OpEntry(TRUE, "s1", TRUE, FALSE, 0, TRUE, 0, 0)
                        ELSE IF h = "p2" THEN OpEntry(TRUE, "s2", FALSE, FALSE, 0, TRUE, 0, 0)
                        ELSE OpEntry(FALSE, None, FALSE, FALSE, 0, FALSE, 0, 0)]
    /\ op_last = NoOp

\* An operation returned: what it was called with, its result, and the
\* entries as they were when it was called.
Returned(op, h, s, result, listed) ==
    op_last' = [op |-> op, handle |-> h, session_id |-> s, result |-> result,
                listed |-> listed, before |-> op_entries]

\* An ownership check that lets any session through.
owner_check_open(entry, session_id) == IF ~entry.exists THEN "NotFound" ELSE "Ok"

\* entries.get(handle_id).ok_or(NotFound)?, then the session check: the
\* opening of every handle-addressed operation.
owner_check(entry, session_id) ==
    IF ~entry.exists THEN "NotFound"
    ELSE IF entry.session_id # session_id THEN "WrongSession"
    ELSE "Ok"

\* The first error of a list of checks, Ok if there is none.
first_error(checks) ==
    IF \E i \in 1..Len(checks) : checks[i] # "Ok"
    THEN checks[CHOOSE i \in 1..Len(checks) :
                    checks[i] # "Ok" /\ \A j \in 1..(i - 1) : checks[j] = "Ok"]
    ELSE "Ok"

not_terminal(entry) == IF entry.terminal THEN "NotRunning" ELSE "Ok"
is_tmux(entry) == IF entry.tmux THEN "Ok" ELSE "NotTmuxProcess"

\* list_by_session: the metas of the entries of the session.
list_by_session(session_id) ==
    /\ Returned("list_by_session", None, session_id, "Ok",
                {h \in OpHandles : op_entries[h].exists /\ op_entries[h].session_id = session_id})
    /\ UNCHANGED op_entries
    /\ UNCHANGED outsideOps

get_status(h, s) ==
    /\ Returned("get_status", h, s, owner_check(op_entries[h], s), {})
    /\ UNCHANGED op_entries
    /\ UNCHANGED outsideOps

\* read_log: a log that cannot be read reads as empty.
read_log(h, s) ==
    /\ Returned("read_log", h, s, owner_check(op_entries[h], s), {})
    /\ UNCHANGED op_entries
    /\ UNCHANGED outsideOps

\* capture: io is what tmux::capture_pane returns.
capture(h, s, io) ==
    /\ Returned("capture", h, s,
                first_error(<<owner_check(op_entries[h], s), is_tmux(op_entries[h]), io>>), {})
    /\ UNCHANGED op_entries
    /\ UNCHANGED outsideOps

send_keys(h, s, io) ==
    /\ Returned("send_keys", h, s,
                first_error(<<owner_check(op_entries[h], s), not_terminal(op_entries[h]),
                              is_tmux(op_entries[h]), io>>), {})
    /\ UNCHANGED op_entries
    /\ UNCHANGED outsideOps

\* write_input: io is what send_literal or the write to stdin returns; stdin
\* is back in the entry when it returns.
write_input(h, s, io) ==
    /\ Returned("write_input", h, s,
                first_error(<<owner_check(op_entries[h], s), not_terminal(op_entries[h]), io>>), {})
    /\ UNCHANGED op_entries
    /\ UNCHANGED outsideOps

\* kill: Killed, completed_at, both cancel senders taken and signalled.
kill(h, s) ==
    LET result == first_error(<<owner_check(op_entries[h], s), not_terminal(op_entries[h])>>) IN
    /\ Returned("kill", h, s, result, {})
    /\ op_entries' = IF result = "Ok"
                     THEN [op_entries EXCEPT ![h].terminal = TRUE, ![h].completed_at = 1,
                                             ![h].cancel_tx = FALSE,
                                             ![h].watcher_cancel_tx = 0]
                     ELSE op_entries
    /\ UNCHANGED outsideOps

\* start_watcher: the old watcher is cancelled and a new one started.
start_watcher(h, s) ==
    LET result == first_error(<<owner_check(op_entries[h], s), not_terminal(op_entries[h]),
                                is_tmux(op_entries[h])>>) IN
    /\ op_entries[h].watchers < MaxOpWatchers
    /\ Returned("start_watcher", h, s, result, {})
    /\ op_entries' = IF result = "Ok"
                     THEN [op_entries EXCEPT ![h].watchers = @ + 1,
                                             ![h].watcher_cancel_tx = op_entries[h].watchers + 1]
                     ELSE op_entries
    /\ UNCHANGED outsideOps

stop_watcher(h, s) ==
    LET result == owner_check(op_entries[h], s) IN
    /\ Returned("stop_watcher", h, s, result, {})
    /\ op_entries' = IF result = "Ok"
                     THEN [op_entries EXCEPT ![h].watcher_cancel_tx = 0]
                     ELSE op_entries
    /\ UNCHANGED outsideOps

\* A process ends and its monitor marks the entry.
OpProcessEnds(h) ==
    /\ op_entries[h].exists
    /\ ~op_entries[h].terminal
    /\ op_entries' = [op_entries EXCEPT ![h].terminal = TRUE, ![h].completed_at = 1]
    /\ op_last' = NoOp
    /\ UNCHANGED outsideOps

IoResults == {"Ok", "Io"}

OpsNext ==
    \/ \E s \in Sessions : list_by_session(s)
    \/ \E h \in OpHandles, s \in Sessions : get_status(h, s)
    \/ \E h \in OpHandles, s \in Sessions : read_log(h, s)
    \/ \E h \in OpHandles, s \in Sessions, io \in IoResults : capture(h, s, io)
    \/ \E h \in OpHandles, s \in Sessions, io \in IoResults : send_keys(h, s, io)
    \/ \E h \in OpHandles, s \in Sessions, io \in IoResults : write_input(h, s, io)
    \/ \E h \in OpHandles, s \in Sessions : kill(h, s)
    \/ \E h \in OpHandles, s \in Sessions : start_watcher(h, s)
    \/ \E h \in OpHandles, s \in Sessions : stop_watcher(h, s)
    \/ \E h \in OpHandles : OpProcessEnds(h)

\* ------------------------------------------------------------------------
\* Anthropic stream adapter (llm/anthropic.rs: AnthropicStreamAdapter)
\* ------------------------------------------------------------------------

\* SSE events of one response, at most.
MaxSseEvents == 3

\* `index` of a content block, and the `id` of a tool_use block (empty when
\* the field is missing: unwrap_or_default).
BlockIndexes == {0, 1}
ToolIds == {"", "t1"}

\* One parsed SSE event.  "ping" stands for every event the adapter passes
\* over: ping, content_block_stop, a content_block_start that is not a
\* tool_use, an unknown type, empty data, data that does not parse.  "error"
\* is an Err of the inner stream.  A delta always carries its `index` here, so
\* current_tool_index (its fallback) is never read.
AdEvent(type, index, id, has_usage, tokens, stop_reason) ==
    [type |-> type, index |-> index, id |-> id, has_usage |-> has_usage,
     tokens |-> tokens, stop_reason |-> stop_reason]

AdEvents ==
    {AdEvent("message_start", 0, "", TRUE, 2, "")}
    \cup {AdEvent("tool_use_start", i, id, FALSE, 0, "") : i \in BlockIndexes, id \in ToolIds}
    \cup {AdEvent("text_delta", 0, "", FALSE, 0, "")}
    \cup {AdEvent("json_delta", i, "", FALSE, 0, "") : i \in BlockIndexes}
    \cup {AdEvent("message_delta", 0, "", TRUE, 3, r) : r \in {"tool_use", "end_turn"}}
    \cup {AdEvent("message_delta", 0, "", FALSE, 0, "tool_use")}
    \cup {AdEvent(t, 0, "", FALSE, 0, "") : t \in {"message_stop", "ping", "error"}}

AdEventSeqs == UNION {[1..n -> AdEvents] : n \in 0..MaxSseEvents}

\* Option<Usage>.
AdNoUsage == [some |-> FALSE, prompt_tokens |-> 0, completion_tokens |-> 0, total_tokens |-> 0]

\* ToolCallAccumulator::default().
AdAccumulator == [id |-> "", name |-> "", input_json |-> <<>>]

\* What poll_next returns: Some(Ok(Token | ToolCalls | Done)), Some(Err), or
\* None.
AdItem(kind, calls, usage) == [kind |-> kind, calls |-> calls, usage |-> usage]

\* AnthropicStreamAdapter::new.
AdapterNew ==
    [done |-> FALSE, usage |-> AdNoUsage, input_tokens |-> 0, tool_calls |-> <<>>,
     ended |-> FALSE]

AdapterIdle ==
    /\ ad_in = <<>>
    /\ ad = [AdapterNew EXCEPT !.done = TRUE, !.ended = TRUE]
    /\ ad_out = <<>>

AdapterInit ==
    /\ ad_in \in AdEventSeqs
    /\ ad = AdapterNew
    /\ ad_out = <<>>

\* finalize_tool_calls: the accumulators with a non-empty id, in Vec order.
finalize_tool_calls(accs) ==
    LET kept == SelectSeq(accs, LAMBDA tc : tc.id # "")
    IN  [i \in 1..Len(kept) |->
            [id |-> kept[i].id, name |-> kept[i].name, arguments |-> kept[i].input_json]]

\* The ContentBlockStart arm for a tool_use block: the Vec is padded with
\* default accumulators up to at, and at gets the block's id and name.
start_tool_use(accs, at, block_id) ==
    LET n == IF Len(accs) <= at THEN at + 1 ELSE Len(accs)
        padded == [i \in 1..n |-> IF i <= Len(accs) THEN accs[i] ELSE AdAccumulator]
    IN  [padded EXCEPT ![at + 1] = [@ EXCEPT !.id = block_id, !.name = "tool"]]

\* The ContentBlockDelta arm for partial_json: appended when at is in range.
push_partial_json(accs, at) ==
    IF at < Len(accs)
    THEN [accs EXCEPT ![at + 1] = [@ EXCEPT !.input_json = Append(@, "j")]]
    ELSE accs

\* The MessageStop arm and the Poll::Ready(None) arm: done is set, pending
\* tool calls are returned if any has an id, otherwise Done with the usage
\* taken.
finish(st, rest) ==
    LET calls == finalize_tool_calls(st.tool_calls)
    IN  IF st.tool_calls # <<>> /\ calls # <<>>
        THEN [st |-> [st EXCEPT !.done = TRUE, !.tool_calls = <<>>], rest |-> rest,
              item |-> AdItem("ToolCalls", calls, AdNoUsage)]
        ELSE [st |-> [st EXCEPT !.done = TRUE, !.tool_calls = <<>>, !.usage = AdNoUsage],
              rest |-> rest, item |-> AdItem("Done", <<>>, st.usage)]

\* The loop of poll_next over the inner stream, up to its first return.
RECURSIVE poll_loop(_, _)
poll_loop(st, inner) ==
    IF inner = <<>> THEN finish(st, inner)
    ELSE
    LET ev == Head(inner)
        rest == Tail(inner)
    IN  CASE ev.type = "error" ->
                [st |-> st, rest |-> rest, item |-> AdItem("Err", <<>>, AdNoUsage)]
          [] ev.type = "message_start" ->
                poll_loop([st EXCEPT !.input_tokens = ev.tokens], rest)
          [] ev.type = "tool_use_start" ->
                poll_loop([st EXCEPT !.tool_calls = start_tool_use(@, ev.index, ev.id)], rest)
          [] ev.type = "text_delta" ->
                [st |-> st, rest |-> rest, item |-> AdItem("Token", <<>>, AdNoUsage)]
          [] ev.type = "json_delta" ->
                poll_loop([st EXCEPT !.tool_calls = push_partial_json(@, ev.index)], rest)
          [] ev.type = "message_delta" /\ ev.has_usage ->
                LET gathered == [some |-> TRUE, prompt_tokens |-> st.input_tokens,
                              completion_tokens |-> ev.tokens,
                              total_tokens |-> st.input_tokens + ev.tokens]
                    st1 == [st EXCEPT !.usage = gathered]
                    calls == finalize_tool_calls(st.tool_calls)
                IN  IF ev.stop_reason = "tool_use" /\ st.tool_calls # <<>>
                    THEN IF calls # <<>>
                         THEN [st |-> [st1 EXCEPT !.tool_calls = <<>>], rest |-> rest,
                               item |-> AdItem("ToolCalls", calls, AdNoUsage)]
                         ELSE poll_loop([st1 EXCEPT !.tool_calls = <<>>], rest)
                    ELSE poll_loop(st1, rest)
          [] ev.type = "message_stop" -> finish(st, rest)
          [] OTHER -> poll_loop(st, rest)

\* poll_next.
poll_next(st, inner) ==
    IF st.done
    THEN [st |-> [st EXCEPT !.ended = TRUE], rest |-> inner,
          item |-> AdItem("None", <<>>, AdNoUsage)]
    ELSE poll_loop(st, inner)

\* The consumer polls the adapter once.
AdapterPoll ==
    /\ ~ad.ended
    /\ LET r == poll_next(ad, ad_in)
       IN  /\ ad' = r.st
           /\ ad_in' = r.rest
           /\ ad_out' = IF r.item.kind = "None" THEN ad_out ELSE Append(ad_out, r.item)
    /\ UNCHANGED outsideAdapter

AdapterNext == AdapterPoll


\* ------------------------------------------------------------------------
\* atomic_write_file (store/file/mod.rs)
\* ------------------------------------------------------------------------

\* ULIDs generated, at most.
MaxUlids == 3

\* Writes a write_all takes to get its data out.
DataParts == 2

Writers == {"w1", "w2"}

\* What final_path held before, and the data of a writer: DataParts parts.
PreviousContent == [i \in 1..DataParts |-> "previous"]
DataOf(w) == [i \in 1..DataParts |-> w]

NoFile == [exists |-> FALSE, content |-> <<>>]
NoWrite == [pc |-> "idle", temp_path |-> 0, result |-> None]

\* The temp paths there can be: the final file's name with a ULID.
TempPaths == 0..MaxUlids

AtomicWriteIdle ==
    /\ final_file = PreviousContent
    /\ temp_files = [p \in TempPaths |-> NoFile]
    /\ aw = [w \in Writers |-> NoWrite]
    /\ ulids = 0

\* A temp path that does not depend on the ULID.
temp_path_shared(ulid) == 0

\* Line 36: final_path.with_file_name("{file_name}.{ulid}.tmp").
temp_path(ulid) == ulid

\* atomic_write_file is called: Ulid::new() and the temp path.
AwCall(w) ==
    /\ aw[w].pc = "idle"
    /\ ulids < MaxUlids
    /\ ulids' = ulids + 1
    /\ aw' = [aw EXCEPT ![w] = [pc |-> "create", temp_path |-> temp_path(ulids + 1),
                                result |-> None]]
    /\ UNCHANGED <<final_file, temp_files>>
    /\ UNCHANGED outsideAtomicWrite

\* A step of the call failed: the error is returned.
AwFails(w) == [aw EXCEPT ![w] = [pc |-> "idle", temp_path |-> 0, result |-> "Err"]]

\* Line 38: File::create(&temp_path), which truncates.
AwCreate(w, ok) ==
    /\ aw[w].pc = "create"
    /\ IF ok
       THEN /\ temp_files' = [temp_files EXCEPT ![aw[w].temp_path] =
                                 [exists |-> TRUE, content |-> <<>>]]
            /\ aw' = [aw EXCEPT ![w].pc = "write"]
       ELSE /\ aw' = AwFails(w)
            /\ UNCHANGED temp_files
    /\ UNCHANGED <<final_file, ulids>>
    /\ UNCHANGED outsideAtomicWrite

\* Line 41: write_all(data), one write at a time.
AwWrite(w, ok) ==
    /\ aw[w].pc = "write"
    /\ IF ok
       THEN /\ temp_files' = [temp_files EXCEPT ![aw[w].temp_path].content = Append(@, w)]
            /\ aw' = [aw EXCEPT ![w].pc =
                         IF Len(temp_files'[aw[w].temp_path].content) >= DataParts
                         THEN "sync" ELSE "write"]
       ELSE /\ aw' = AwFails(w)
            /\ UNCHANGED temp_files
    /\ UNCHANGED <<final_file, ulids>>
    /\ UNCHANGED outsideAtomicWrite

\* Line 44: sync_all.
AwSync(w, ok) ==
    /\ aw[w].pc = "sync"
    /\ aw' = IF ok THEN [aw EXCEPT ![w].pc = "rename"] ELSE AwFails(w)
    /\ UNCHANGED <<final_file, temp_files, ulids>>
    /\ UNCHANGED outsideAtomicWrite

\* Line 47: rename(&temp_path, final_path); it fails if the temp file is
\* not there.
AwRename(w, ok) ==
    /\ aw[w].pc = "rename"
    /\ IF ok /\ temp_files[aw[w].temp_path].exists
       THEN /\ final_file' = temp_files[aw[w].temp_path].content
            /\ temp_files' = [temp_files EXCEPT ![aw[w].temp_path] = NoFile]
            /\ aw' = [aw EXCEPT ![w] = [pc |-> "idle", temp_path |-> 0, result |-> "Ok"]]
       ELSE /\ aw' = AwFails(w)
            /\ UNCHANGED <<final_file, temp_files>>
    /\ UNCHANGED ulids
    /\ UNCHANGED outsideAtomicWrite

AtomicWriteNext ==
    \/ \E w \in Writers : AwCall(w)
    \/ \E w \in Writers, ok \in BOOLEAN : AwCreate(w, ok)
    \/ \E w \in Writers, ok \in BOOLEAN : AwWrite(w, ok)
    \/ \E w \in Writers, ok \in BOOLEAN : AwSync(w, ok)
    \/ \E w \in Writers, ok \in BOOLEAN : AwRename(w, ok)

\* ------------------------------------------------------------------------
\* Directives (context/directives.rs)
\* ------------------------------------------------------------------------

\* The *.md files a directives directory can hold, by file stem, in the
\* order of their file names.
FileStems == <<"custom", "memory", "style">>

\* A file is not there, is empty or whitespace-only, or has text.
FileStates == {"absent", "blank", "text"}

DirectiveDirs == [1..Len(FileStems) -> FileStates]

NotLoaded == [called |-> FALSE, directives |-> <<>>]

DirectivesIdle ==
    /\ dr_workspace = [i \in 1..Len(FileStems) |-> "absent"]
    /\ dr_agent = [i \in 1..Len(FileStems) |-> "absent"]
    /\ dr_memory = FALSE
    /\ dr_loaded = NotLoaded

DirectivesInit ==
    /\ dr_workspace \in DirectiveDirs
    /\ dr_agent \in DirectiveDirs
    /\ dr_memory \in BOOLEAN
    /\ dr_loaded = NotLoaded

DirectiveEntry(instruction, scope, source) ==
    [instruction |-> instruction, scope |-> scope, source |-> source]

\* The entries of the files of dir from position i on: files come by file
\* name, and one without text is skipped.
RECURSIVE DirEntriesFrom(_, _, _)
DirEntriesFrom(dir, scope, i) ==
    IF i > Len(FileStems) THEN <<>>
    ELSE (IF dir[i] = "text"
          THEN <<DirectiveEntry("file", scope, FileStems[i])>>
          ELSE <<>>) \o DirEntriesFrom(dir, scope, i + 1)

load_directives_from_dir(dir, scope) == DirEntriesFrom(dir, scope, 1)

default_directives(memory) ==
    IF memory THEN <<DirectiveEntry("default", "Agent", "memory")>> ELSE <<>>

\* A merge that lets the defaults through whatever the files are.
merge_directives_unfiltered(file_directives, defaults) == defaults \o file_directives

merge_directives(file_directives, defaults) ==
    LET file_sources == {file_directives[i].source : i \in 1..Len(file_directives)}
        keep(d) == d.source \notin file_sources
    IN SelectSeq(defaults, keep) \o file_directives

load_all_directives(workspace_directives, agent_dir, memory) ==
    LET file_directives == load_directives_from_dir(workspace_directives, "Global")
                           \o load_directives_from_dir(agent_dir, "Agent")
    IN merge_directives(file_directives, default_directives(memory))

DirectivesLoad ==
    /\ dr_loaded = NotLoaded
    /\ dr_loaded' = [called |-> TRUE,
                     directives |-> load_all_directives(dr_workspace, dr_agent, dr_memory)]
    /\ UNCHANGED <<dr_workspace, dr_agent, dr_memory>>
    /\ UNCHANGED outsideDirectives

DirectivesNext == DirectivesLoad

\* ------------------------------------------------------------------------
\* Callback dispatcher (registry.rs: fire_completion_callback, run_callback)
\* ------------------------------------------------------------------------

\* Events one run of the loop records in the session.
MaxLoopEvents == 1

CbIds == {"c1", "c2"}

\* A callback: position, session of the process, whether the process has
\* gateway and chat id, the persist_message flag, whether the steering path
\* persisted the message, the owner of the steering sender it obtained, the
\* history it read, the result of its loop.
NoCb == [pc |-> "idle", session |-> None, routed |-> FALSE, persist |-> FALSE,
         persisted |-> FALSE, tx |-> None, history |-> <<>>, result |-> None]

LogEntry(c, kind) == [by |-> c, kind |-> kind]

CallbackInit ==
    /\ cb = [c \in CbIds |-> NoCb]
    /\ loop_lock = [s \in Sessions |-> None]
    /\ steering_channels = [s \in Sessions |-> None]
    /\ steering_rx = [c \in CbIds |-> <<>>]
    /\ session_log = [s \in Sessions |-> <<>>]
    /\ acquired = [s \in Sessions |-> <<>>]

\* A guard scoped to the loop call alone.
HoldsGuardLoopOnly(pc) == pc \in {"build", "context", "loop"}

\* _loop_guard: bound at line 1180, dropped when run_callback returns.
HoldsGuard(pc) == pc \in {"build", "context", "loop", "finish", "gateway"}

\* The keyed lock of session s once callback c has moved to pc.
LockAfter(c, s, pc) ==
    IF HoldsGuard(pc) THEN c
    ELSE IF loop_lock[s] = c THEN None ELSE loop_lock[s]

\* The receiver of the channel run_callback c created is alive: from the
\* channel's creation until run_agentic_loop returns.
ReceiverAlive(c) == cb[c].pc \in {"context", "loop"}

\* fire_completion_callback, lines 701-810, for a terminated process of
\* session s: without gateway or chat id it returns; else the steering path
\* if a channel is registered, else run_callback with persist_message set.
CallbackFires(c, s, routed) ==
    /\ cb[c].pc = "idle"
    /\ cb' = [cb EXCEPT ![c] =
           IF ~routed
           THEN [NoCb EXCEPT !.pc = "done", !.session = s]
           ELSE IF steering_channels[s] # None
           THEN [NoCb EXCEPT !.pc = "steer", !.session = s, !.routed = TRUE,
                             !.tx = steering_channels[s]]
           ELSE [NoCb EXCEPT !.pc = "run", !.session = s, !.routed = TRUE,
                             !.persist = TRUE]]
    /\ UNCHANGED <<loop_lock, steering_channels, steering_rx, session_log, acquired>>
    /\ UNCHANGED outsideCallback

\* Lines 768-776: add_user_message on the steering path; persisted iff it
\* succeeded.
SteerPersist(c, ok) ==
    /\ cb[c].pc = "steer"
    /\ cb' = [cb EXCEPT ![c].pc = "send", ![c].persisted = ok]
    /\ session_log' = [session_log EXCEPT ![cb[c].session] =
           IF ok THEN Append(@, LogEntry(c, "user")) ELSE @]
    /\ UNCHANGED <<loop_lock, steering_channels, steering_rx, acquired>>
    /\ UNCHANGED outsideCallback

\* A dispatcher that gives up when the send fails.
OnSendFailureReturn == "done"

\* Lines 785-797: a failed send falls through to run_callback.
OnSendFailure == "run"

\* A fallback that has run_callback persist the message in any case.
persist_always(persisted) == TRUE

\* Line 788: let persist_on_fallback = !persisted.
persist_on_fallback(persisted) == ~persisted

\* Lines 777-797: the send; if the receiver is gone the callback falls back
\* to run_callback, persisting the message unless that was done.
SteerSend(c) ==
    /\ cb[c].pc = "send"
    /\ IF ReceiverAlive(cb[c].tx)
       THEN /\ steering_rx' = [steering_rx EXCEPT ![cb[c].tx] = Append(@, c)]
            /\ cb' = [cb EXCEPT ![c].pc = "done"]
       ELSE /\ cb' = [cb EXCEPT ![c].pc = OnSendFailure,
                                ![c].persist = persist_on_fallback(cb[c].persisted)]
            /\ UNCHANGED steering_rx
    /\ UNCHANGED <<loop_lock, steering_channels, session_log, acquired>>
    /\ UNCHANGED outsideCallback

\* run_callback, lines 1149-1174: agent, provider and session are looked up
\* and the message persisted if persist_message; any failure returns.
RunPersist(c, ok) ==
    /\ cb[c].pc = "run"
    /\ IF ok
       THEN /\ cb' = [cb EXCEPT ![c].pc = "lock"]
            /\ session_log' = [session_log EXCEPT ![cb[c].session] =
                   IF cb[c].persist THEN Append(@, LogEntry(c, "user")) ELSE @]
       ELSE /\ cb' = [cb EXCEPT ![c].pc = "done", ![c].result = "Err"]
            /\ UNCHANGED session_log
    /\ UNCHANGED <<loop_lock, steering_channels, steering_rx, acquired>>
    /\ UNCHANGED outsideCallback

\* KeyedLocks: one mutex per key; lock() completes when no one holds it.
LockFree(s) == loop_lock[s] = None

\* Lines 1179-1180: agentic_loop_locks.get(session).lock().await.
LockAcquire(c) ==
    /\ cb[c].pc = "lock"
    /\ LockFree(cb[c].session)
    /\ cb' = [cb EXCEPT ![c].pc = "build"]
    /\ loop_lock' = [loop_lock EXCEPT ![cb[c].session] = LockAfter(c, cb[c].session, "build")]
    /\ acquired' = [acquired EXCEPT ![cb[c].session] = Append(@, c)]
    /\ UNCHANGED <<steering_channels, steering_rx, session_log>>
    /\ UNCHANGED outsideCallback

\* Lines 1183-1214: the executor is built and the steering channel registered.
RegisterSteering(c) ==
    /\ cb[c].pc = "build"
    /\ cb' = [cb EXCEPT ![c].pc = "context"]
    /\ steering_channels' = [steering_channels EXCEPT ![cb[c].session] = c]
    /\ loop_lock' = [loop_lock EXCEPT ![cb[c].session] = LockAfter(c, cb[c].session, "context")]
    /\ UNCHANGED <<steering_rx, session_log, acquired>>
    /\ UNCHANGED outsideCallback

\* Lines 1217-1240: get_messages and the context built from it.
BuildContext(c) ==
    /\ cb[c].pc = "context"
    /\ cb' = [cb EXCEPT ![c].pc = "loop", ![c].history = session_log[cb[c].session]]
    /\ loop_lock' = [loop_lock EXCEPT ![cb[c].session] = LockAfter(c, cb[c].session, "loop")]
    /\ UNCHANGED <<steering_channels, steering_rx, session_log, acquired>>
    /\ UNCHANGED outsideCallback

EventsBy(c, log) == Len(SelectSeq(log, LAMBDA e : e.by = c /\ e.kind = "event"))

\* Lines 1243-1252: the running loop records an event in the session.
LoopRecords(c) ==
    /\ cb[c].pc = "loop"
    /\ EventsBy(c, session_log[cb[c].session]) < MaxLoopEvents
    /\ session_log' = [session_log EXCEPT ![cb[c].session] = Append(@, LogEntry(c, "event"))]
    /\ UNCHANGED <<cb, loop_lock, steering_channels, steering_rx, acquired>>
    /\ UNCHANGED outsideCallback

\* Where run_callback goes with the result of the loop: an error returns,
\* Complete goes on to add_assistant_message.
AfterLoop(result) == IF result = "Err" THEN "done" ELSE "finish"

\* Lines 1252-1256: run_agentic_loop returns, the steering channel is
\* removed, `result?` returns on an error.
LoopReturns(c, result) ==
    /\ cb[c].pc = "loop"
    /\ cb' = [cb EXCEPT ![c].pc = AfterLoop(result), ![c].result = result]
    /\ steering_channels' = [steering_channels EXCEPT ![cb[c].session] = None]
    /\ loop_lock' = [loop_lock EXCEPT ![cb[c].session] =
                        LockAfter(c, cb[c].session, AfterLoop(result))]
    /\ UNCHANGED <<steering_rx, session_log, acquired>>
    /\ UNCHANGED outsideCallback

\* Lines 1259-1262: non-empty content is added as the assistant message.
AddAssistantMessage(c) ==
    /\ cb[c].pc = "finish"
    /\ cb' = [cb EXCEPT ![c].pc = IF cb[c].result = "Complete" THEN "gateway" ELSE "done"]
    /\ session_log' = [session_log EXCEPT ![cb[c].session] =
           IF cb[c].result = "Complete" THEN Append(@, LogEntry(c, "assistant")) ELSE @]
    /\ loop_lock' = [loop_lock EXCEPT ![cb[c].session] =
           LockAfter(c, cb[c].session, IF cb[c].result = "Complete" THEN "gateway" ELSE "done")]
    /\ UNCHANGED <<steering_channels, steering_rx, acquired>>
    /\ UNCHANGED outsideCallback

\* Lines 1264-1318: the response is sent to the gateway; run_callback returns.
GatewaySend(c) ==
    /\ cb[c].pc = "gateway"
    /\ cb' = [cb EXCEPT ![c].pc = "done"]
    /\ loop_lock' = [loop_lock EXCEPT ![cb[c].session] = LockAfter(c, cb[c].session, "done")]
    /\ UNCHANGED <<steering_channels, steering_rx, session_log, acquired>>
    /\ UNCHANGED outsideCallback

CallbackNext ==
    \/ \E c \in CbIds, s \in Sessions, routed \in BOOLEAN : CallbackFires(c, s, routed)
    \/ \E c \in CbIds, ok \in BOOLEAN : SteerPersist(c, ok)
    \/ \E c \in CbIds : SteerSend(c)
    \/ \E c \in CbIds, ok \in BOOLEAN : RunPersist(c, ok)
    \/ \E c \in CbIds : LockAcquire(c)
    \/ \E c \in CbIds : RegisterSteering(c)
    \/ \E c \in CbIds : BuildContext(c)
    \/ \E c \in CbIds : LoopRecords(c)
    \/ \E c \in CbIds, result \in {"Complete", "Empty", "Err"} : LoopReturns(c, result)
    \/ \E c \in CbIds : AddAssistantMessage(c)
    \/ \E c \in CbIds : GatewaySend(c)

\* ------------------------------------------------------------------------
\* Steering drain (the loop run_callback drives, given Some(steering_rx))
\* ------------------------------------------------------------------------

SteeringIdle == sd_drained = {}

\* Between two iterations the loop drains its steering channel without
\* blocking and appends the messages received.
LoopDrains(c) ==
    /\ cb[c].pc = "loop"
    /\ steering_rx[c] # <<>>
    /\ sd_drained' = sd_drained \cup Range(steering_rx[c])
    /\ steering_rx' = [steering_rx EXCEPT ![c] = <<>>]
    /\ UNCHANGED <<cb, loop_lock, steering_channels, session_log, acquired>>
    /\ UNCHANGED outsideDrain

\* ------------------------------------------------------------------------
\* Tool executor calls (crates/agnx/src/tools/executor.rs)
\* ------------------------------------------------------------------------

\* Calls made on one executor.
MaxExecutions == 2

\* The registries an executor is built with.
ToolRegistries == { Tools, [bash |-> "BuiltinBash"] }

\* The tool calls handed to the executor: the loop's shapes, the CLI tool
\* with arguments, without, and with arguments that are not JSON, and the
\* builtin that is not bash; ids 1 and 2.
ExecutorCalls ==
    { [id |-> i, name |-> sh.name, arguments |-> sh.arguments] :
        i \in 1..2,
        sh \in CallShapes \cup { [name |-> "lint", arguments |-> "ls"],
                                 [name |-> "lint", arguments |-> "ok"],
                                 [name |-> "lint", arguments |-> "bad"],
                                 [name |-> "memory", arguments |-> "ok"] } }

NoRun == [mode |-> None, call |-> [id |-> 0, name |-> "", arguments |-> ""],
          out |-> Pending, outcome |-> Outcome(Pending, NoPayload, <<>>, <<>>, <<>>, <<>>)]

\* The executor the loop is given: the agent's tools and policy.
ExecutorIdle ==
    /\ ex_tools = Tools
    /\ ex_policy = AgentPolicy
    /\ ex_last = NoRun
    /\ ex_done = 0
    /\ policy_log = <<>>
    /\ dispatch_log = <<>>
    /\ sandbox_log = <<>>
    /\ notify_log = <<>>

\* ToolExecutor::new with any registry and policy.
ExecutorInit ==
    /\ ex_tools \in ToolRegistries
    /\ ex_policy \in Policies
    /\ ex_last = NoRun
    /\ ex_done = 0
    /\ policy_log = <<>>
    /\ dispatch_log = <<>>
    /\ sandbox_log = <<>>
    /\ notify_log = <<>>

\* The effects of one call on the policy, the tool functions, the sandbox
\* and the notify sink.
Effects(mode, call, out, o) ==
    /\ ex_last' = [mode |-> mode, call |-> call, out |-> out, outcome |-> o]
    /\ ex_done' = ex_done + 1
    /\ policy_log' = policy_log \o o.checked
    /\ dispatch_log' = dispatch_log \o o.dispatched
    /\ sandbox_log' = IF o.command = <<>> THEN sandbox_log ELSE Append(sandbox_log, o.command)
    /\ notify_log' = notify_log \o o.notified
    /\ UNCHANGED <<ex_tools, ex_policy>>

\* executor.execute(&tool_call) with the sandbox answering out.
ExecuteCall(call, out) ==
    /\ ex_done < MaxExecutions
    /\ UNCHANGED outsideExecutor
    /\ Effects("execute", call, out, execute(call, ex_tools, ex_policy, out))

\* executor.execute_bypassing_policy(&tool_call) with the sandbox answering
\* out.
BypassCall(call, out) ==
    /\ ex_done < MaxExecutions
    /\ UNCHANGED outsideExecutor
    /\ Effects("bypass", call, out, execute_bypassing_policy(call, ex_tools, ex_policy, out))

ExecutorNext ==
    \E call \in ExecutorCalls, out \in SandboxExec :
        \/ ExecuteCall(call, out)
        \/ BypassCall(call, out)

\* ------------------------------------------------------------------------
\* Anthropic adapter (crates/duragent/src/llm/anthropic.rs)
\* ------------------------------------------------------------------------

\* Messages of one ChatRequest.
MaxMessages == 3

\* A message of the ChatRequest: content, tool_calls and tool_call_id are
\* Options (None), a content may be the empty string, tool_calls may be an
\* empty list.
ChatMsg(role, text, calls, call_id) ==
    [role |-> role, content |-> text, tool_calls |-> calls, tool_call_id |-> call_id]

NoCalls == << None >>

ChatMessages ==
    { ChatMsg("system", t, NoCalls, None) : t \in {None, "", "sys"} }
    \cup { ChatMsg("user", t, NoCalls, None) : t \in {None, "", "usr"} }
    \cup { ChatMsg("assistant", t, c, None) :
             t \in {None, "", "ast"}, c \in {NoCalls, <<>>, <<"tc1">>} }
    \cup { ChatMsg("tool", t, NoCalls, i) : t \in {None, "out"}, i \in {None, "tc1"} }

ChatRequests == UNION { [1..n -> ChatMessages] : n \in 0..MaxMessages }

\* msg.content.clone().unwrap_or_default()
unwrap_or_default(text) == IF text = None THEN "" ELSE text

TextBlock(text) == [type |-> "text", text |-> text, id |-> None]
ToolUseBlock(id) == [type |-> "tool_use", text |-> "", id |-> id]
ToolResultBlock(id, text) == [type |-> "tool_result", text |-> text, id |-> id]

\* RequestMessage::Text { role, content }
TextMessage(role, text) == [kind |-> "Text", role |-> role, content |-> text, blocks |-> <<>>]

\* RequestMessage::ContentBlocks { role, content }
ContentBlocks(role, blocks) ==
    [kind |-> "ContentBlocks", role |-> role, content |-> "", blocks |-> blocks]

\* The match on msg.role in to_request: what one message adds to
\* system_parts and to messages.
ConvertMessage(msg) ==
    CASE msg.role = "system" ->
            [system |-> IF msg.content # None /\ msg.content # ""
                        THEN <<msg.content>> ELSE <<>>,
             messages |-> <<>>]
      [] msg.role = "user" ->
            [system |-> <<>>,
             messages |-> << TextMessage("user", unwrap_or_default(msg.content)) >>]
      [] msg.role = "assistant" ->
            [system |-> <<>>,
             messages |->
                IF msg.tool_calls # NoCalls
                THEN << ContentBlocks("assistant",
                          (IF msg.content # None /\ msg.content # ""
                           THEN << TextBlock(msg.content) >> ELSE <<>>)
                          \o [i \in 1..Len(msg.tool_calls) |-> ToolUseBlock(msg.tool_calls[i])]) >>
                ELSE << TextMessage("assistant", unwrap_or_default(msg.content)) >>]
      [] msg.role = "tool" ->
            [system |-> <<>>,
             messages |->
                IF msg.tool_call_id # None
                THEN << ContentBlocks("user",
                          << ToolResultBlock(msg.tool_call_id,
                                             unwrap_or_default(msg.content)) >>) >>
                ELSE <<>>]

\* The for loop of to_request over request.messages.
RECURSIVE ConvertAll(_)
ConvertAll(msgs) ==
    IF msgs = <<>> THEN [system |-> <<>>, messages |-> <<>>]
    ELSE LET h == ConvertMessage(Head(msgs))
             t == ConvertAll(Tail(msgs))
         IN  [system |-> h.system \o t.system, messages |-> h.messages \o t.messages]

message_role(msg) == msg.role

is_plain_text_message(msg) == msg.kind = "Text" /\ msg.content # ""

\* merge_into: the target becomes ContentBlocks, the source's text or
\* blocks are appended, with a separator between two plain texts.
merge_into(target, source, insert_separator) ==
    LET target_blocks ==
            IF target.kind = "ContentBlocks" THEN target.blocks
            ELSE IF target.content = "" THEN <<>> ELSE << TextBlock(target.content) >>
        added ==
            IF source.kind = "Text"
            THEN IF source.content # ""
                 THEN (IF insert_separator /\ target_blocks # <<>>
                       THEN << TextBlock("\n\n") >> ELSE <<>>)
                      \o << TextBlock(source.content) >>
                 ELSE <<>>
            ELSE source.blocks
    IN  ContentBlocks(target.role, target_blocks \o added)

\* The for loop of merge_consecutive_messages: msg is merged into the last
\* element of merged when the roles agree, else pushed.
RECURSIVE MergeLoop(_, _)
MergeLoop(merged, rest) ==
    IF rest = <<>> THEN merged
    ELSE LET msg == Head(rest)
             n == Len(merged)
         IN  IF n > 0 /\ message_role(merged[n]) = message_role(msg)
             THEN MergeLoop([merged EXCEPT ![n] =
                                merge_into(@, msg, is_plain_text_message(@)
                                                   /\ is_plain_text_message(msg))],
                            Tail(rest))
             ELSE MergeLoop(Append(merged, msg), Tail(rest))

\* The merge restricted to adjacent messages of the same representation.
RECURSIVE MergeSameKind(_, _)
MergeSameKind(merged, rest) ==
    IF rest = <<>> THEN merged
    ELSE LET msg == Head(rest)
             n == Len(merged)
         IN  IF n > 0 /\ message_role(merged[n]) = message_role(msg)
                      /\ merged[n].kind = msg.kind
             THEN MergeSameKind([merged EXCEPT ![n] =
                                    merge_into(@, msg, is_plain_text_message(@)
                                                       /\ is_plain_text_message(msg))],
                                Tail(rest))
             ELSE MergeSameKind(Append(merged, msg), Tail(rest))

merge_same_kind_messages(list) ==
    IF Len(list) < 2 THEN list ELSE MergeSameKind(<<>>, list)

\* merge_consecutive_messages
merge_consecutive_messages(list) ==
    IF Len(list) < 2 THEN list ELSE MergeLoop(<<>>, list)

ANTHROPIC_IDENTITY == "You are Claude Code"

\* to_request: the system prompt (None, a string joined from the parts, or
\* for OAuth the identity followed by the parts) and the merged messages.
to_request(msgs, oauth) ==
    LET c == ConvertAll(msgs) IN
    [sent |-> TRUE,
     system |-> IF oauth THEN <<ANTHROPIC_IDENTITY>> \o c.system ELSE c.system,
     messages |-> merge_consecutive_messages(c.messages)]

NoRequest == [sent |-> FALSE, system |-> <<>>, messages |-> <<>>]

\* No request is being built.
AnthropicIdle ==
    /\ chat_messages = <<>>
    /\ anthropic_request = NoRequest

\* Any ChatRequest.
AnthropicInit ==
    /\ chat_messages \in ChatRequests
    /\ anthropic_request = NoRequest

\* chat / chat_stream build the request for the provider.
ToRequest(oauth) ==
    /\ ~anthropic_request.sent
    /\ UNCHANGED outsideAnthropic
    /\ anthropic_request' = to_request(chat_messages, oauth)
    /\ UNCHANGED chat_messages

AnthropicNext == \E oauth \in BOOLEAN : ToRequest(oauth)

\* ------------------------------------------------------------------------
\* Session store (spec 4.1; src/session/snapshot.rs)
\* ------------------------------------------------------------------------

\* Events appended to one session.
MaxEvents == 3

\* Snapshots taken of one session.
MaxSnapshots == 2

\* The tasks that call the store: the loop's record_event, a callback's
\* add_user_message, the snapshot on an idle transition.
Clients == {"k1", "k2"}

\* The sessions the store's clients work on.
StoreSessions == {"s1"}

\* SessionEventPayload: a message, and the status change.
Payloads == {"UserMessage", "StatusChanged"}

SessionEvent(seq, payload) == [seq |-> seq, payload |-> payload]

\* The Session a log replays to.
SessionState(status, conversation) == [status |-> status, conversation |-> conversation]

NewSession == SessionState("active", <<>>)

\* Applying one event to the session: a message is appended to the
\* conversation, a status change sets the status.
ApplyEvent(state, ev) ==
    IF ev.payload = "StatusChanged"
    THEN [state EXCEPT !.status = "paused"]
    ELSE [state EXCEPT !.conversation = Append(@, [role |-> "user", seq |-> ev.seq])]

\* Replay: the events applied in file order.
RECURSIVE Replay(_, _)
Replay(state, evs) ==
    IF evs = <<>> THEN state ELSE Replay(ApplyEvent(state, Head(evs)), Tail(evs))

\* SessionSnapshot::new(.., status, .., last_event_seq, conversation, ..).
SessionSnapshot(status, last_event_seq, conversation) ==
    [status |-> status, last_event_seq |-> last_event_seq, conversation |-> conversation]

NoSnapshot == SessionSnapshot("none", 0, <<>>)

NoCall == [op |-> None, pc |-> "idle", session |-> None, payload |-> None, seq |-> 0,
           snap |-> NoSnapshot]

StoreInit ==
    /\ store_lock = [s \in StoreSessions |-> None]
    /\ next_seq = [s \in StoreSessions |-> 1]
    /\ event_log = [s \in StoreSessions |-> <<>>]
    /\ session_state = [s \in StoreSessions |-> NewSession]
    /\ snapshot_file = [s \in StoreSessions |-> NoSnapshot]
    /\ snapshots = [s \in StoreSessions |-> {}]
    /\ client = [k \in Clients |-> NoCall]

\* A store whose clients do not wait for the lock.
StoreLockIgnored(s) == TRUE

\* The per-session lock of the store is free.
StoreLockFree(s) == store_lock[s] = None

\* append(session_id, payload) is called.
AppendCall(k, s, payload) ==
    /\ client[k].pc = "idle"
    /\ next_seq[s] <= MaxEvents
    /\ UNCHANGED outsideStore
    /\ client' = [client EXCEPT ![k] = [NoCall EXCEPT !.op = "append", !.pc = "lock",
                                                       !.session = s, !.payload = payload]]
    /\ UNCHANGED <<store_lock, next_seq, event_log, session_state, snapshot_file, snapshots>>

\* snapshot(session_id) is called.
SnapshotCall(k, s) ==
    /\ client[k].pc = "idle"
    /\ Cardinality(snapshots[s]) < MaxSnapshots
    /\ UNCHANGED outsideStore
    /\ client' = [client EXCEPT ![k] = [NoCall EXCEPT !.op = "snapshot", !.pc = "lock",
                                                       !.session = s]]
    /\ UNCHANGED <<store_lock, next_seq, event_log, session_state, snapshot_file, snapshots>>

\* The call takes the per-session lock.
StoreLock(k) ==
    /\ client[k].pc = "lock"
    /\ StoreLockFree(client[k].session)
    /\ UNCHANGED outsideStore
    /\ store_lock' = [store_lock EXCEPT ![client[k].session] = k]
    /\ client' = [client EXCEPT ![k].pc = IF client[k].op = "append" THEN "allocate"
                                          ELSE "read_seq"]
    /\ UNCHANGED <<next_seq, event_log, session_state, snapshot_file, snapshots>>

\* append: the next sequence number is allocated.
AppendAllocate(k) ==
    /\ client[k].pc = "allocate"
    /\ UNCHANGED outsideStore
    /\ client' = [client EXCEPT ![k].seq = next_seq[client[k].session], ![k].pc = "write"]
    /\ UNCHANGED <<store_lock, next_seq, event_log, session_state, snapshot_file, snapshots>>

\* append: the record {seq, ts, payload} is written to the log, atomically;
\* a failed write leaves the log and the counter as they were and the call
\* fails.
AppendWrite(k, ok) ==
    /\ client[k].pc = "write"
    /\ UNCHANGED outsideStore
    /\ LET s == client[k].session IN
       IF ok
       THEN /\ event_log' = [event_log EXCEPT ![s] =
                               Append(@, SessionEvent(client[k].seq, client[k].payload))]
            /\ next_seq' = [next_seq EXCEPT ![s] = client[k].seq + 1]
            /\ client' = [client EXCEPT ![k].pc = "apply"]
       ELSE /\ client' = [client EXCEPT ![k].pc = "release"]
            /\ UNCHANGED <<event_log, next_seq>>
    /\ UNCHANGED <<store_lock, session_state, snapshot_file, snapshots>>

\* append: the event is applied to the in-memory session.
AppendApply(k) ==
    /\ client[k].pc = "apply"
    /\ UNCHANGED outsideStore
    /\ LET s == client[k].session IN
       session_state' = [session_state EXCEPT ![s] =
                            ApplyEvent(@, SessionEvent(client[k].seq, client[k].payload))]
    /\ client' = [client EXCEPT ![k].pc = "release"]
    /\ UNCHANGED <<store_lock, next_seq, event_log, snapshot_file, snapshots>>

\* snapshot: last_event_seq is read.
SnapshotReadSeq(k) ==
    /\ client[k].pc = "read_seq"
    /\ UNCHANGED outsideStore
    /\ client' = [client EXCEPT ![k].seq = next_seq[client[k].session] - 1,
                                ![k].pc = "read_state"]
    /\ UNCHANGED <<store_lock, next_seq, event_log, session_state, snapshot_file, snapshots>>

\* snapshot: the session is serialized with last_event_seq.
SnapshotReadState(k) ==
    /\ client[k].pc = "read_state"
    /\ UNCHANGED outsideStore
    /\ LET st == session_state[client[k].session] IN
       client' = [client EXCEPT ![k].snap = SessionSnapshot(st.status, client[k].seq,
                                                            st.conversation),
                                ![k].pc = "release"]
    /\ UNCHANGED <<store_lock, next_seq, event_log, session_state, snapshot_file, snapshots>>

\* The lock is released; append returns, snapshot goes on to write its file.
StoreRelease(k) ==
    /\ client[k].pc = "release"
    /\ UNCHANGED outsideStore
    /\ store_lock' = [store_lock EXCEPT ![client[k].session] = IF @ = k THEN None ELSE @]
    /\ client' = [client EXCEPT ![k] = IF client[k].op = "append" THEN NoCall
                                       ELSE [@ EXCEPT !.pc = "rename"]]
    /\ UNCHANGED <<next_seq, event_log, session_state, snapshot_file, snapshots>>

\* snapshot: temp file, fsync, rename over snapshot.yaml; the log is not
\* touched.  A failed write leaves the old snapshot.
SnapshotRename(k, ok) ==
    /\ client[k].pc = "rename"
    /\ UNCHANGED outsideStore
    /\ LET s == client[k].session IN
       IF ok
       THEN /\ snapshot_file' = [snapshot_file EXCEPT ![s] = client[k].snap]
            /\ snapshots' = [snapshots EXCEPT ![s] = @ \cup {client[k].snap}]
       ELSE UNCHANGED <<snapshot_file, snapshots>>
    /\ client' = [client EXCEPT ![k] = NoCall]
    /\ UNCHANGED <<store_lock, next_seq, event_log, session_state>>

\* load(session_id): the latest snapshot, then the events above its
\* last_event_seq in file order.
load(s) ==
    LET snap == snapshot_file[s]
        start == IF snap = NoSnapshot THEN NewSession
                 ELSE SessionState(snap.status, snap.conversation)
        last == IF snap = NoSnapshot THEN 0 ELSE snap.last_event_seq
    IN  Replay(start, SelectSeq(event_log[s], LAMBDA e : e.seq > last))

StoreNext ==
    \/ \E k \in Clients, s \in StoreSessions, payload \in Payloads : AppendCall(k, s, payload)
    \/ \E k \in Clients, s \in StoreSessions : SnapshotCall(k, s)
    \/ \E k \in Clients : \/ StoreLock(k)
                          \/ AppendAllocate(k)
                          \/ \E ok \in BOOLEAN : AppendWrite(k, ok)
                          \/ AppendApply(k)
                          \/ SnapshotReadSeq(k)
                          \/ SnapshotReadState(k)
                          \/ StoreRelease(k)
                          \/ \E ok \in BOOLEAN : SnapshotRename(k, ok)

\* ------------------------------------------------------------------------
\* Specifications
\* ------------------------------------------------------------------------

\* The loop not running.
LoopIdle == LoopInit /\ max_iterations = 0

\* The loop starts; no process, no callback.
Init == LoopInit /\ RegistryInit /\ CallbackInit /\ ExecutorIdle /\ AnthropicIdle /\ StoreInit /\ CleanupIdle /\ WatcherIdle /\ SseIdle /\ OpenAiIdle /\ HooksIdle /\ AtomicWriteIdle /\ DirectivesIdle /\ GlobIdle /\ DependsIdle /\ WriteInputIdle /\ ScreenIdle /\ SteeringIdle /\ OpsIdle /\ AdapterIdle

\* The registry and the dispatcher start empty; the loop is not running.
InitIdle == LoopIdle /\ RegistryInit /\ CallbackInit /\ ExecutorIdle /\ AnthropicIdle /\ StoreInit /\ CleanupIdle /\ WatcherIdle /\ SseIdle /\ OpenAiIdle /\ HooksIdle /\ AtomicWriteIdle /\ DirectivesIdle /\ GlobIdle /\ DependsIdle /\ WriteInputIdle /\ ScreenIdle /\ SteeringIdle /\ OpsIdle /\ AdapterIdle

\* A DependsOn hook and a call to check.
InitDepends == LoopIdle /\ RegistryInit /\ CallbackInit /\ ExecutorIdle /\ AnthropicIdle /\ StoreInit /\ CleanupIdle /\ WatcherIdle /\ SseIdle /\ OpenAiIdle /\ HooksIdle /\ AtomicWriteIdle /\ DirectivesIdle /\ GlobIdle /\ DependsInit /\ WriteInputIdle /\ ScreenIdle /\ SteeringIdle /\ OpsIdle /\ AdapterIdle

\* Any pattern and any invocation.
InitGlob == LoopIdle /\ RegistryInit /\ CallbackInit /\ ExecutorIdle /\ AnthropicIdle /\ StoreInit /\ CleanupIdle /\ WatcherIdle /\ SseIdle /\ OpenAiIdle /\ HooksIdle /\ AtomicWriteIdle /\ DirectivesIdle /\ GlobInit /\ DependsIdle /\ WriteInputIdle /\ ScreenIdle /\ SteeringIdle /\ OpsIdle /\ AdapterIdle

\* The two directives directories and the agent's memory setting, any way.
InitDirectives == LoopIdle /\ RegistryInit /\ CallbackInit /\ ExecutorIdle /\ AnthropicIdle /\ StoreInit /\ CleanupIdle /\ WatcherIdle /\ SseIdle /\ OpenAiIdle /\ HooksIdle /\ AtomicWriteIdle /\ DirectivesInit /\ GlobIdle /\ DependsIdle /\ WriteInputIdle /\ ScreenIdle /\ SteeringIdle /\ OpsIdle /\ AdapterIdle

\* An executor built with any registry and policy.
InitExecutor == LoopIdle /\ RegistryInit /\ CallbackInit /\ ExecutorInit /\ AnthropicIdle /\ StoreInit /\ CleanupIdle /\ WatcherIdle /\ SseIdle /\ OpenAiIdle /\ HooksIdle /\ AtomicWriteIdle /\ DirectivesIdle /\ GlobIdle /\ DependsIdle /\ WriteInputIdle /\ ScreenIdle /\ SteeringIdle /\ OpsIdle /\ AdapterIdle

\* Any ChatRequest handed to the Anthropic adapter.
InitAnthropic == LoopIdle /\ RegistryInit /\ CallbackInit /\ ExecutorIdle /\ AnthropicInit /\ StoreInit /\ CleanupIdle /\ WatcherIdle /\ SseIdle /\ OpenAiIdle /\ HooksIdle /\ AtomicWriteIdle /\ DirectivesIdle /\ GlobIdle /\ DependsIdle /\ WriteInputIdle /\ ScreenIdle /\ SteeringIdle /\ OpsIdle /\ AdapterIdle

\* A screen watcher just spawned.
InitWatcher == LoopIdle /\ RegistryInit /\ CallbackInit /\ ExecutorIdle /\ AnthropicIdle /\ StoreInit /\ CleanupIdle /\ WatcherInit /\ SseIdle /\ OpenAiIdle /\ HooksIdle /\ AtomicWriteIdle /\ DirectivesIdle /\ GlobIdle /\ DependsIdle /\ WriteInputIdle /\ ScreenIdle /\ SteeringIdle /\ OpsIdle /\ AdapterIdle

\* An SSE stream just built.
InitSse == LoopIdle /\ RegistryInit /\ CallbackInit /\ ExecutorIdle /\ AnthropicIdle /\ StoreInit /\ CleanupIdle /\ WatcherIdle /\ SseInit /\ OpenAiIdle /\ HooksIdle /\ AtomicWriteIdle /\ DirectivesIdle /\ GlobIdle /\ DependsIdle /\ WriteInputIdle /\ ScreenIdle /\ SteeringIdle /\ OpsIdle /\ AdapterIdle

\* A parser on the byte stream of any response.
InitOpenAi == LoopIdle /\ RegistryInit /\ CallbackInit /\ ExecutorIdle /\ AnthropicIdle /\ StoreInit /\ CleanupIdle /\ WatcherIdle /\ SseIdle /\ OpenAiInit /\ HooksIdle /\ AtomicWriteIdle /\ DirectivesIdle /\ GlobIdle /\ DependsIdle /\ WriteInputIdle /\ ScreenIdle /\ SteeringIdle /\ OpsIdle /\ AdapterIdle

\* The OpenAI parser, about to read any finite byte stream.
InitOpenAiAny == LoopIdle /\ RegistryInit /\ CallbackInit /\ ExecutorIdle /\ AnthropicIdle /\ StoreInit /\ CleanupIdle /\ WatcherIdle /\ SseIdle /\ OpenAiAnyInit /\ HooksIdle /\ AtomicWriteIdle /\ DirectivesIdle /\ GlobIdle /\ DependsIdle /\ WriteInputIdle /\ ScreenIdle /\ SteeringIdle /\ OpsIdle /\ AdapterIdle

\* A SkipDuplicate hook and a call to check.
InitHooks == LoopIdle /\ RegistryInit /\ CallbackInit /\ ExecutorIdle /\ AnthropicIdle /\ StoreInit /\ CleanupIdle /\ WatcherIdle /\ SseIdle /\ OpenAiIdle /\ HooksInit /\ AtomicWriteIdle /\ DirectivesIdle /\ GlobIdle /\ DependsIdle /\ WriteInputIdle /\ ScreenIdle /\ SteeringIdle /\ OpsIdle /\ AdapterIdle

\* The adapter, about to be polled over one drawn sequence of SSE events.
InitAdapter == LoopIdle /\ RegistryInit /\ CallbackInit /\ ExecutorIdle /\ AnthropicIdle /\ StoreInit /\ CleanupIdle /\ WatcherIdle /\ SseIdle /\ OpenAiIdle /\ HooksIdle /\ AtomicWriteIdle /\ DirectivesIdle /\ GlobIdle /\ DependsIdle /\ WriteInputIdle /\ ScreenIdle /\ SteeringIdle /\ OpsIdle /\ AdapterInit

SpecLoop == Init /\ [][LoopNext]_vars

\* The loop is one task: the runtime keeps polling it, the provider's streams
\* end and the sandbox's default timeout ends every execution.
SpecLoopFair == SpecLoop /\ WF_vars(LoopNext)

\* The loop with a session store that can fail.
LoopFaultyNext ==
    \/ LoopNext
    \/ StoreHealthChanges

SpecLoopFaulty == Init /\ [][LoopFaultyNext]_vars

SpecRegistry == InitIdle /\ [][RegistryNext]_vars

SpecCallback == InitIdle /\ [][CallbackNext]_vars

\* The dispatcher with loops that drain their steering channel; a loop that
\* can drain does so unless it returns first, and no step waits for ever.
SteeringNext ==
    \/ CallbackNext
    \/ \E c \in CbIds : LoopDrains(c)

SpecSteering == InitIdle /\ [][SteeringNext]_vars

SpecSteeringFair ==
    SpecSteering /\ WF_vars(SteeringNext) /\ \A c \in CbIds : WF_vars(LoopDrains(c))

SpecExecutor == InitExecutor /\ [][ExecutorNext]_vars

SpecAnthropic == InitAnthropic /\ [][AnthropicNext]_vars

SpecStore == InitIdle /\ [][StoreNext]_vars

SpecCleanup == InitIdle /\ [][CleanupNext]_vars

SpecWatcher == InitWatcher /\ [][WatcherNext]_vars

SpecSse == InitSse /\ [][SseNext]_vars

SpecOpenAi == InitOpenAi /\ [][OpenAiNext]_vars

\* The OpenAI parser over any finite byte stream.
SpecOpenAiAny == InitOpenAiAny /\ [][OpenAiAnyNext]_vars

SpecHooks == InitHooks /\ [][HooksNext]_vars

SpecAtomicWrite == InitIdle /\ [][AtomicWriteNext]_vars

SpecDirectives == InitDirectives /\ [][DirectivesNext]_vars

SpecGlob == InitGlob /\ [][GlobNext]_vars

SpecDepends == InitDepends /\ [][DependsNext]_vars

SpecWriteInput == InitIdle /\ [][WriteInputNext]_vars

SpecScreen == InitIdle /\ [][ScreenNext]_vars

SpecOps == InitIdle /\ [][OpsNext]_vars

\* The stream adapter polled to its end over one sequence of SSE events.
SpecAdapter == InitAdapter /\ [][AdapterNext]_vars

\* ------------------------------------------------------------------------
\* Properties of the agentic loop
\* ------------------------------------------------------------------------

IsAssistant(m) == m.role = "assistant"
IsTool(m) == m.role = "tool"
IsToolCallEv(e) == e.kind = "ToolCall"
IsToolResultEv(e) == e.kind = "ToolResult"

\* The tool calls of the assistant messages of msgs, in list order.
RECURSIVE AllCalls(_)
AllCalls(msgs) ==
    IF msgs = <<>> THEN <<>>
    ELSE (IF IsAssistant(Head(msgs)) THEN Head(msgs).tool_calls ELSE <<>>)
         \o AllCalls(Tail(msgs))

\* Tool rounds so far: one assistant message is pushed per response with tool calls.
Rounds == Len(SelectSeq(messages, IsAssistant))

\* The round (1-based) whose response carried call id.
RoundOf(id) ==
    LET am == SelectSeq(messages, IsAssistant) IN
    CHOOSE k \in 1..Len(am) : \E c \in Range(am[k].tool_calls) : c.id = id

Processed == 1..tool_calls_made

\* C5: whatever the order in which the parallel executions complete, the
\* recorded ToolCall events, the recorded ToolResult events and the appended
\* tool messages follow the order of the tool-call lists, and each result is
\* the one the executor produced for that very call.
C5_OrderedAndPaired ==
    LET calls == SubSeq(AllCalls(messages), 1, tool_calls_made)
        tc == SelectSeq(events, IsToolCallEv)
        tr == SelectSeq(events, IsToolResultEv)
        tm == SelectSeq(messages, IsTool)
    IN  /\ Len(tc) = Len(calls) /\ Len(tr) = Len(calls) /\ Len(tm) = Len(calls)
        /\ \A k \in 1..Len(calls) :
              LET fed == ToToolResult(produced[calls[k].id]) IN
              /\ tc[k].call_id = calls[k].id
              /\ tc[k].tool_name = calls[k].name
              /\ tr[k].call_id = calls[k].id
              /\ tr[k].success = fed.success
              /\ tr[k].content = fed.content
              /\ tm[k].tool_call_id = calls[k].id
              /\ tm[k].content = fed.content

\* Two calls of one response, the second completed first with another result,
\* both processed.
C5_Witness ==
    /\ done_order = <<2, 1>>
    /\ tool_calls_made = 2
    /\ lpc = "top"
    /\ produced[1] # produced[2]
    /\ Len(events) = 4

\* C6: within one iteration every ToolCall event is recorded before any
\* ToolResult event: for calls a and b of the same response, ToolCall(b)
\* precedes ToolResult(a) in the log.
C6_CallsBeforeResults ==
    \A m \in Range(messages) :
        IsAssistant(m) =>
            \A a \in Range(m.tool_calls), b \in Range(m.tool_calls) :
                \A i \in 1..Len(events), j \in 1..Len(events) :
                    (/\ IsToolResultEv(events[i]) /\ events[i].call_id = a.id
                     /\ IsToolCallEv(events[j]) /\ events[j].call_id = b.id)
                    => j < i

\* The tool messages answering call id in msgs.
AnswersTo(msgs, id) == { j \in 1..Len(msgs) : IsTool(msgs[j]) /\ msgs[j].tool_call_id = id }

WellAnswered(msgs) ==
    /\ \A i \in 1..Len(msgs) :
          IsAssistant(msgs[i]) =>
            \A c \in Range(msgs[i].tool_calls) :
                /\ Cardinality(AnswersTo(msgs, c.id)) = 1
                /\ \A j \in AnswersTo(msgs, c.id) :
                      /\ j > i
                      /\ \A k \in (i+1)..(j-1) : ~IsAssistant(msgs[k])
    /\ \A j \in 1..Len(msgs) :
          IsTool(msgs[j]) =>
            \E i \in 1..(j-1) :
                /\ IsAssistant(msgs[i])
                /\ \E c \in Range(msgs[i].tool_calls) : c.id = msgs[j].tool_call_id

\* C7: in every ChatRequest after the first, each tool-call id of an
\* assistant message is answered by exactly one later tool message with that
\* id, before the next assistant message, and every tool message refers to a
\* preceding assistant tool call.
C7_RequestsWellAnswered ==
    \A q \in 2..Len(requests) : WellAnswered(requests[q])

\* A third request: two assistant messages, the first with a failed call.
C7_Witness ==
    /\ Len(requests) = 3
    /\ Len(SelectSeq(requests[3], IsAssistant)) = 2
    /\ ~produced[1].ok

C8_Bounded ==
    /\ Len(requests) <= max_iterations
    /\ Rounds >= Len(requests) - 1
    /\ (lpc \in {"top", "join", "process"} => Rounds = Len(requests))
    /\ (loop_result.kind = "Complete" =>
            /\ Len(requests) >= 1
            /\ Rounds = Len(requests) - 1
            /\ loop_result.iterations = Len(requests))
    /\ (loop_result.kind = "MaxIterationsExceeded" =>
            /\ Rounds = max_iterations
            /\ Len(requests) = max_iterations
            /\ loop_result.iterations = max_iterations)
    /\ (lpc = "returned" /\ Rounds = max_iterations =>
            loop_result.kind = "MaxIterationsExceeded")
    /\ (max_iterations = 0 => requests = <<>>)
    /\ (lpc = "returned") = (loop_result.kind # None)

\* Steps of one iteration: the request, the response, one completion and one
\* pass of the for loop per call, the join, and the way back to the head.
IterationWeight == 2 * MaxToolCalls + 4

\* How far the loop is into its iteration.
Phase ==
    CASE lpc = "stream"   -> 0
      [] lpc = "join"     -> 1 + Len(done_order)
      [] lpc = "process"  -> 2 + Len(tool_calls) + idx
      [] lpc = "top"      -> IterationWeight - 1
      [] lpc = "returned" -> IterationWeight - 1

\* Grows with every step of the loop and is bounded by the iteration limit.
LoopMeasure == iterations * IterationWeight + Phase

\* The steps that do not wait for an answer of the provider.
LocalStep == LoopIterate \/ LlmRequestFails \/ ToolFinishes \/ JoinAll \/ ProcessResult

\* C8: the loop returns after at most max_iterations LLM requests: Complete
\* at the first response without tool calls, MaxIterationsExceeded exactly
\* when each of the first max_iterations responses carried tool calls (with
\* max_iterations = 0, before any request).  It does return: until it has,
\* a step of LoopNext is enabled, every step raises LoopMeasure, and
\* LoopMeasure is bounded, so the fair loop reaches "returned".
C8_Terminates ==
    /\ [](C8_Bounded /\ iterations <= max_iterations + 1)
    /\ [](lpc # "returned" => ENABLED LocalStep)
    /\ [][LoopMeasure' > LoopMeasure]_vars

\* Two tool rounds under a limit of two.
C8_Witness ==
    /\ loop_result.kind = "MaxIterationsExceeded"
    /\ max_iterations = 2
    /\ Len(requests) = 2

\* C9: a call the executor answers with ApprovalRequired suspends the loop:
\* it returns AwaitingApproval, appends no tool message for the call and
\* sends no further LLM request.
C9_ApprovalSuspends ==
    \A id \in Processed :
        produced[id].err = "ApprovalRequired" =>
            /\ lpc = "returned"
            /\ loop_result.kind = "AwaitingApproval"
            /\ AnswersTo(messages, id) = {}
            /\ Len(requests) = RoundOf(id)

ToolFailures == {"NotFound", "InvalidArguments", "Sandbox", "PolicyDenied"}

FailedCalls == { id \in Processed : produced[id].err \in ToolFailures }

\* What C10 says of the record of a failed call, and of the calls after it.
FailureFedBack ==
    /\ loop_result.kind # "ToolError"
    /\ \A id \in FailedCalls :
          /\ \E e \in Range(events) :
                /\ IsToolResultEv(e) /\ e.call_id = id
                /\ e.success = FALSE
                /\ e.content = ErrorContent(produced[id].err)
          /\ \E m \in Range(messages) :
                /\ IsTool(m) /\ m.tool_call_id = id
                /\ m.content = ErrorContent(produced[id].err)
    /\ (lpc \notin {"join", "process"} => tool_calls_made = Len(AllCalls(messages)))
    /\ C5_OrderedAndPaired

\* C10 as stated: after a round with a failed call the loop goes on to the
\* next LLM request, so it never returns without having sent one.
C10_Original ==
    /\ FailureFedBack
    /\ \A id \in FailedCalls : lpc = "returned" => Len(requests) > RoundOf(id)

\* C10, amended: a failed call is recorded as a failed ToolResult and fed back
\* as a tool message, the remaining calls are processed in list order, and
\* the loop goes on to its next iteration: the next LLM request, unless
\* max_iterations requests have been made, which ends the loop with
\* MaxIterationsExceeded as after any other round.
C10_FailureFedBack ==
    /\ FailureFedBack
    /\ \A id \in FailedCalls :
          lpc = "returned" =>
            \/ Len(requests) > RoundOf(id)
            \/ /\ loop_result.kind = "MaxIterationsExceeded"
               /\ RoundOf(id) = max_iterations

\* A failing and a succeeding call of one response, and the request after them.
C10_Witness ==
    /\ Len(requests) = 2
    /\ 1 \in FailedCalls
    /\ tool_calls_made = 2
    /\ produced[2].ok /\ produced[2].success
    /\ RoundOf(1) = 1 /\ RoundOf(2) = 1

\* The log holds both events of the round of call id.
RoundLogged(id) ==
    /\ \E i \in 1..Len(events) : IsToolCallEv(events[i]) /\ events[i].call_id = id
    /\ \E i \in 1..Len(events) : IsToolResultEv(events[i]) /\ events[i].call_id = id

\* C31: a failure to write a ToolCall or ToolResult event stops the loop, so
\* no conversation sent to the LLM holds a tool message whose ToolCall and
\* ToolResult events the session's log lacks.
C31_SentRoundsAreLogged ==
    \A q \in 1..Len(requests) :
        \A j \in 1..Len(requests[q]) :
            IsTool(requests[q][j]) => RoundLogged(requests[q][j].tool_call_id)



\* ------------------------------------------------------------------------
\* Properties of the tool executor
\* ------------------------------------------------------------------------

\* The step is a call of execute.
ExecuteStep == ex_done' = ex_done + 1 /\ ex_last'.mode = "execute"

Registered(call) == call.name \in DOMAIN ex_tools

\* What the policy says about the call of a registered tool.
DecisionFor(call) ==
    check(ex_policy, ToolTypeOf(ex_tools[call.name]), InvocationOf(call, ex_tools[call.name]))

\* C11: execute dispatches the tool's command and sends a notification only
\* if the tool name is registered and policy.check returns Allow; an unknown
\* name fails NotFound without the policy being consulted, Deny fails
\* PolicyDenied, Ask fails ApprovalRequired carrying the call id and the
\* invocation string, and in these three cases nothing is dispatched, run or
\* notified.
C11_GatedByLookupAndPolicy ==
    [][ ExecuteStep =>
          LET call == ex_last'.call
              o == ex_last'.outcome
              quiet == /\ dispatch_log' = dispatch_log
                       /\ sandbox_log' = sandbox_log
                       /\ notify_log' = notify_log
          IN  /\ ~quiet => Registered(call) /\ DecisionFor(call) = "Allow"
              /\ ~Registered(call) =>
                    /\ o.result = Err("NotFound")
                    /\ policy_log' = policy_log
                    /\ quiet
              /\ Registered(call) /\ DecisionFor(call) = "Deny" =>
                    o.result = Err("PolicyDenied") /\ quiet
              /\ Registered(call) /\ DecisionFor(call) = "Ask" =>
                    /\ o.result = Err("ApprovalRequired")
                    /\ o.payload = Payload(call.id, InvocationOf(call, ex_tools[call.name]))
                    /\ quiet
              /\ Registered(call) /\ DecisionFor(call) = "Allow" =>
                    /\ dispatch_log' # dispatch_log \/ ex_tools[call.name] = "Builtin"
                    /\ policy_log' = Append(policy_log, InvocationOf(call, ex_tools[call.name]))
      ]_vars

\* A second call of execute is held back for approval after a first one ran
\* its command and was notified.
C11_Witness ==
    /\ ex_done = 2
    /\ ex_last.mode = "execute"
    /\ ex_last.outcome.result = Err("ApprovalRequired")
    /\ ex_last.call.id = 2
    /\ Len(sandbox_log) = 1
    /\ Len(notify_log) = 1
    /\ Len(policy_log) = 2

\* The fields of an outcome a caller and the environment can observe.
Observable(o) == [o EXCEPT !.checked = <<>>]

\* C12: execute_bypassing_policy returns and does what execute returns and
\* does under a policy that decides Allow: the same NotFound for an unknown
\* tool, the same dispatch, result and notification.
C12_BypassIsExecuteAllowed ==
    ex_last.mode = "bypass" =>
        Observable(ex_last.outcome) =
            Observable(execute(ex_last.call, ex_tools, [ex_policy EXCEPT !.rules = "allow"],
                               ex_last.out))

\* A command the policy holds back for approval is run and notified by the
\* post-approval variant.
C12_Witness ==
    /\ ex_last.mode = "bypass"
    /\ Registered(ex_last.call)
    /\ DecisionFor(ex_last.call) = "Ask"
    /\ ex_last.outcome.result.ok
    /\ ex_last.outcome.notified # <<>>
    /\ ex_last.outcome.command # <<>>

\* ------------------------------------------------------------------------
\* Properties of the Anthropic adapter
\* ------------------------------------------------------------------------

\* C13: the message list of the request to_request builds has no two
\* adjacent messages of the same role and no message of role system,
\* whatever the ChatRequest.
C13_RolesAlternate ==
    anthropic_request.sent =>
        LET ms == anthropic_request.messages IN
        /\ \A i \in 1..Len(ms) : ms[i].role \in {"user", "assistant"}
        /\ \A i \in 1..(Len(ms) - 1) : ms[i].role # ms[i + 1].role

\* A request with a system message and user text between a tool call and
\* its result: the text and the result end up in one user message.
C13_Witness ==
    /\ anthropic_request.sent
    /\ Len(chat_messages) = 3
    /\ chat_messages[1].role = "assistant" /\ chat_messages[1].tool_calls = <<"tc1">>
    /\ chat_messages[2].role = "user" /\ chat_messages[2].content = "usr"
    /\ chat_messages[3].role = "tool" /\ chat_messages[3].tool_call_id = "tc1"
    /\ Len(anthropic_request.messages) = 2
    /\ Len(anthropic_request.messages[2].blocks) = 2

\* The RequestMessages to_request hands to merge_consecutive_messages.
Converted == ConvertAll(chat_messages).messages

\* C27: merge_consecutive_messages is idempotent: applied to the list it
\* produced, it gives that list again.
C27_MergeIdempotent ==
    anthropic_request.sent =>
        /\ anthropic_request.messages = merge_consecutive_messages(Converted)
        /\ merge_consecutive_messages(anthropic_request.messages)
              = anthropic_request.messages

\* A request in which the first application merged a text into a tool
\* result and still left two messages.
C27_Witness ==
    /\ anthropic_request.sent
    /\ Len(Converted) = 3
    /\ Len(anthropic_request.messages) = 2
    /\ Converted[1].kind = "ContentBlocks"
    /\ Converted[2].kind = "Text"
    /\ Converted[1].role = Converted[2].role

\* The content of a message as blocks: nothing for an empty text.
BlocksOf(m) ==
    IF m.kind = "Text"
    THEN (IF m.content = "" THEN <<>> ELSE << TextBlock(m.content) >>)
    ELSE m.blocks

\* The blocks of a run of same-role messages merged as C28 says: all
\* contents in order, a blank-line separator between every two adjacent
\* plain texts.
RECURSIVE RunBlocks(_)
RunBlocks(run) ==
    IF Len(run) = 1 THEN BlocksOf(run[1])
    ELSE LET n == Len(run) IN
         RunBlocks(SubSeq(run, 1, n - 1))
            \o (IF is_plain_text_message(run[n - 1]) /\ is_plain_text_message(run[n])
                THEN << TextBlock("\n\n") >> ELSE <<>>)
            \o BlocksOf(run[n])

\* The length of the run of same-role messages list starts with.
RECURSIVE RunLength(_)
RunLength(list) ==
    IF Len(list) < 2 \/ list[1].role # list[2].role THEN 1
    ELSE 1 + RunLength(Tail(list))

\* The list with every run of two or more same-role messages merged as C28
\* says.
RECURSIVE MergedRuns(_)
MergedRuns(list) ==
    IF list = <<>> THEN <<>>
    ELSE LET n == RunLength(list)
             run == SubSeq(list, 1, n)
         IN  << IF n = 1 THEN run[1] ELSE ContentBlocks(run[1].role, RunBlocks(run)) >>
                \o MergedRuns(SubSeq(list, n + 1, Len(list)))

\* C28: a run of same-role messages of any length is merged into one
\* message that holds the contents of the run in order, with a blank-line
\* separator between every two adjacent plain-text messages.
C28_RunsJoinedWithSeparators ==
    anthropic_request.sent => anthropic_request.messages = MergedRuns(Converted)

\* C28 for the runs of at most two messages.
C28_PairsJoinedWithSeparators ==
    (anthropic_request.sent /\ \A i \in 1..(Len(Converted) - 2) :
                                  ~(Converted[i].role = Converted[i + 1].role
                                    /\ Converted[i + 1].role = Converted[i + 2].role)) =>
        anthropic_request.messages = MergedRuns(Converted)

\* ------------------------------------------------------------------------
\* Properties of the session store
\* ------------------------------------------------------------------------

\* C14: in every session's log the sequence numbers of consecutive events
\* differ by exactly 1, whatever the interleaving of the append calls: no
\* number twice, none skipped.
C14_DenseSequence ==
    \A s \in StoreSessions :
        \A i \in 1..(Len(event_log[s]) - 1) :
            event_log[s][i + 1].seq = event_log[s][i].seq + 1

\* An append has written the second event and still holds the lock another
\* append is waiting for.
C14_Witness ==
    \E s \in StoreSessions :
        /\ Len(event_log[s]) = 2
        /\ \E k, j \in Clients :
              /\ store_lock[s] = j /\ client[j].op = "append" /\ client[j].pc = "apply"
              /\ client[k].op = "append" /\ client[k].pc = "lock"
              /\ client[k].session = s

MaxSeq(s) == IF event_log[s] = <<>> THEN 0 ELSE event_log[s][Len(event_log[s])].seq

\* The snapshot, then the events above its last_event_seq.
ResumeFrom(snap, s) ==
    Replay(SessionState(snap.status, snap.conversation),
           SelectSeq(event_log[s], LAMBDA e : e.seq > snap.last_event_seq))

\* C15: every snapshot of a session, written or being written, has
\* last_event_seq at most the session's highest sequence number, and the
\* events above last_event_seq applied to it give the state a replay of the
\* whole log gives; the log only grows.
C15_SnapshotPlusSuffix ==
    /\ [](\A s \in StoreSessions :
            /\ \A snap \in snapshots[s] \cup
                           { client[k].snap : k \in { c \in Clients :
                                 client[c].pc = "rename" /\ client[c].session = s } } :
                  /\ snap.last_event_seq <= MaxSeq(s)
                  /\ ResumeFrom(snap, s) = Replay(NewSession, event_log[s])
            /\ load(s) = Replay(NewSession, event_log[s]))
    /\ [][\A s \in StoreSessions :
            /\ Len(event_log'[s]) >= Len(event_log[s])
            /\ SubSeq(event_log'[s], 1, Len(event_log[s])) = event_log[s]]_vars

\* An older snapshot replaced a newer one on disk, and events were appended
\* after both.
C15_Witness ==
    \E s \in StoreSessions :
        /\ Cardinality(snapshots[s]) = 2
        /\ \E other \in snapshots[s] : other.last_event_seq > snapshot_file[s].last_event_seq
        /\ snapshot_file[s].last_event_seq >= 1
        /\ MaxSeq(s) > snapshot_file[s].last_event_seq + 1
        /\ session_state[s].status = "paused"

\* ------------------------------------------------------------------------
\* Properties of the process registry
\* ------------------------------------------------------------------------

Present(h) == entries[h] # NoEntry

\* A step in which the task of h leaves update_status's get_mut section.
MarkReturns(h) == task[h].pc = "mark" /\ task'[h].pc # "mark"

\* C1: once the status of an entry is terminal, no registry operation changes
\* the status or completed_at again, and a mark_* on it changes neither the
\* entry nor the meta file.
C1_TerminalFrozen ==
    [][\A h \in Handles :
          (is_terminal(entries[h].meta.status) /\ Present(h)') =>
            /\ entries'[h].meta.status = entries[h].meta.status
            /\ entries'[h].meta.completed_at = entries[h].meta.completed_at
            /\ MarkReturns(h) =>
                  /\ entries'[h] = entries[h]
                  /\ disk'[h] = disk[h]
                  /\ task'[h].pc # "persist"]_vars

\* A monitor that saw the timeout has returned from mark_timed_out on an
\* entry killed at an earlier instant: the entry still says Killed, then.
C1_Witness ==
    \E h \in Handles :
        /\ task[h].outcome = "TimedOut"
        /\ task[h].pc \in {"callback", "done"}
        /\ entries[h].meta.status = "Killed"
        /\ entries[h].meta.completed_at < now

\* No call or task is between two steps on h.
Quiescent(h) == killer[h].pc = "idle" /\ task[h].pc \in {"wait", "done"}

C3_StatusWrittenBeforeCallback ==
    \A h \in Handles :
        \A k \in 1..Len(fired[h]) :
            /\ is_terminal(fired[h][k].entry.status)
            /\ fired[h][k].file = fired[h][k].entry


\* A step of recover on the meta file of h (a restart is not one).
RecoverStep(h) == rec'[h] # rec[h] /\ restarts' = restarts

\* recover left everything of h but its own position alone.
RecoverIdleStep(h) ==
    /\ entries'[h] = entries[h]
    /\ disk'[h] = disk[h]
    /\ fired'[h] = fired[h]
    /\ task'[h] = task[h]

TimedOutAndMarked(h) ==
    /\ task[h].outcome = "TimedOut"
    /\ task[h].pc \in {"persist", "callback", "done"}
    /\ transitions[h] # <<>>
    /\ transitions[h][1].by = "monitor"

\* C18: on every spawn path, a process whose timeout elapsed is recorded
\* with the terminal status TimedOut.
C18_TimeoutRecordsTimedOut ==
    \A h \in Handles :
        TimedOutAndMarked(h) =>
            /\ entries[h].meta.status = "TimedOut"
            /\ task[h].pc = "done" => disk[h].status = "TimedOut"

\* C18 on the paths other than the synchronous wait on a plain subprocess.
C18_TimedOutBesidesWaitForChild ==
    \A h \in Handles :
        (TimedOutAndMarked(h) /\ task[h].kind # "wait_for_child") =>
            /\ entries[h].meta.status = "TimedOut"
            /\ task[h].pc = "done" => disk[h].status = "TimedOut"

\* A kill call on h leaves the registry as it found it: status and
\* completed_at, the cancel senders, the meta file, and no cancel signal
\* sent or about to be sent.
KillChangesNothing(h) ==
    /\ entries'[h] = entries[h]
    /\ disk'[h] = disk[h]
    /\ cancel_rx'[h] = cancel_rx[h]
    /\ killer'[h] = killer[h]
    /\ transitions'[h] = transitions[h]
    /\ task'[h] = task[h]

\* The statement of C19 as it stands: whichever session calls kill on a
\* handle whose status is terminal, it returns NotRunning and changes nothing.
C19_Original ==
    [][\A h \in Handles, s \in Sessions :
          (KillCall(h, s) /\ Present(h) /\ is_terminal(entries[h].meta.status)) =>
             /\ kill_ret'[h] = kill_ret[h] \cup {"NotRunning"}
             /\ KillChangesNothing(h)]_vars

\* C19: kill on a handle whose status is terminal changes nothing; it
\* returns NotRunning to the session that owns the handle and WrongSession
\* to any other session.
C19_KillOnTerminal ==
    [][\A h \in Handles, s \in Sessions :
          (KillCall(h, s) /\ Present(h) /\ is_terminal(entries[h].meta.status)) =>
             /\ kill_ret'[h] = kill_ret[h] \cup
                   {IF s = entries[h].meta.session_id THEN "NotRunning"
                                                      ELSE "WrongSession"}
             /\ KillChangesNothing(h)]_vars

\* kill has returned NotRunning on a process that had completed: the entry
\* and the meta file still say Completed, the cancel sender dropped by
\* mark_completed was not signalled, and no kill is under way.
C19_Witness ==
    \E h \in Handles :
        /\ "NotRunning" \in kill_ret[h]
        /\ entries[h].meta.status = "Completed"
        /\ disk[h] = entries[h].meta
        /\ ~cancel_rx[h]
        /\ killer[h] = NoKill
        /\ transitions[h] # <<>>
        /\ transitions[h][1].by = "monitor"

\* C20: in every registry state an entry whose status is terminal has
\* completed_at set and an entry that is running has it unset, whether the
\* terminal transition was made by kill, by a mark_* call or by recover.
C20_CompletedAtIffTerminal ==
    \A h \in Handles :
        Present(h) =>
            /\ entries[h].meta.status \in
                   {"Running", "Completed", "Failed", "TimedOut", "Killed", "Lost"}
            /\ is_terminal(entries[h].meta.status) => entries[h].meta.completed_at > 0
            /\ entries[h].meta.status = "Running" => entries[h].meta.completed_at = 0
            /\ \A k \in 1..Len(transitions[h]) :
                  /\ transitions[h][k].by \in {"kill", "monitor", "recover"}
                  /\ transitions[h][k].at > 0

\* recover has marked a process Lost that was spawned before the restart:
\* the entry carries the instant of the recovery as completed_at.
C20_Witness ==
    \E h \in Handles :
        /\ Present(h)
        /\ entries[h].meta.status = "Lost"
        /\ entries[h].meta.completed_at > entries[h].meta.spawned_at
        /\ transitions[h] # <<>>
        /\ transitions[h][1].by = "recover"

\* C21: cleanup_old removes an entry only if its status is terminal and its
\* completed_at is older than max_age, so never a running one; the log file
\* and the meta file are deleted only after the entry has been removed, by
\* the call that removed it.
C21_CleanupOnlyOldTerminal ==
    [][\A h \in Handles :
          /\ (Present(h) /\ ~Present(h)') =>
                /\ is_terminal(entries[h].meta.status)
                /\ entries[h].meta.completed_at > 0
                /\ now - entries[h].meta.completed_at > cleaner.max_age
                /\ cleaner'.removed = entries[h].meta
          /\ (log_file[h] /\ ~log_file'[h]) =>
                /\ ~Present(h)
                /\ cleaner.cur = h
                /\ is_terminal(cleaner.removed.status)
          /\ (disk[h] # NoMeta /\ disk'[h] = NoMeta) =>
                /\ ~Present(h)
                /\ cleaner.cur = h
                /\ is_terminal(cleaner.removed.status)]_vars

\* cleanup_old has removed a process that had ended, with its log and meta
\* file, and returned.
C21_Witness ==
    \E h \in Handles :
        /\ transitions[h] # <<>>
        /\ ~Present(h)
        /\ ~log_file[h]
        /\ disk[h] = NoMeta
        /\ cleaner = NoCleaner

\* C22: the screen-halted callback fires only when the log size has not
\* changed for at least silence_timeout, and after a callback the next one
\* comes only after the log size has changed and then stayed unchanged for
\* silence_timeout again.
C22_FiresOncePerSilence ==
    \A k \in 1..Len(halted) :
        /\ halted[k].at - halted[k].last_change >= wenv.silence_timeout
        /\ k > 1 =>
              /\ halted[k].size # halted[k - 1].size
              /\ halted[k].last_change >= halted[k - 1].at

\* The watcher fired, the log grew, and after another silence it fired again.
C22_Witness ==
    /\ Len(halted) = 2
    /\ wenv.silence_timeout > 0
    /\ halted[2].size > halted[1].size

\* An operation on h is suspended at an await: persist_meta in kill or in
\* update_status.
SuspendedAtAwait(h) == killer[h].pc = "write" \/ task[h].pc = "persist"

\* C23: no registry operation is suspended at an await while it holds a
\* guard on the process entry.
C23_NoGuardAcrossAwait ==
    \A h \in Handles : SuspendedAtAwait(h) => guard[h] = None

\* The stream is over: it finished or was dropped.
SseOver == sse.finished \/ sse.dropped

RECURSIVE TokenText(_)
TokenText(evs) ==
    IF evs = <<>> THEN <<>>
    ELSE (IF Head(evs).kind = "Token" THEN Head(evs).content ELSE <<>>) \o TokenText(Tail(evs))

\* The parser has returned the delta contents as tokens and then one Done.
AllTextThenDone ==
    /\ oa_out # <<>>
    /\ oa_out[Len(oa_out)].kind = "Done"
    /\ \A i \in 1..(Len(oa_out) - 1) : oa_out[i].kind = "Token"
    /\ TokenText(oa_out) = Flatten(oa_in.deltas)

\* C25: for a stream that ends with `data: [DONE]`, however its bytes come
\* in transport chunks, a parser that is done has returned tokens whose
\* texts concatenate to the delta contents, followed by exactly one Done.
C25_TokensEqualUnaryText == oa.done => AllTextThenDone

\* C25 when no character was split between two transport chunks.
C25_UnsplitCharacters == (oa.done /\ oa.rejected = 0) => AllTextThenDone

\* The conversation has an earlier assistant call of the same tool:action,
\* with the same values for the match_args keys, whose tool result is not
\* masked.
UnmaskedDuplicate ==
    \E i \in 1..Len(hk_ctx.messages) :
        /\ hk_ctx.messages[i].role = "assistant"
        /\ hk_ctx.messages[i].invocation = hk_ctx.invocation
        /\ \A k \in hk_ctx.match_args :
              hk_ctx.messages[i].arguments[k] = hk_ctx.arguments[k]
        /\ \E j \in (i + 1)..Len(hk_ctx.messages) :
              /\ hk_ctx.messages[j].role = "tool"
              /\ hk_ctx.messages[j].id = hk_ctx.messages[i].id
              /\ ~(hk_ctx.messages[j].content # <<>>
                   /\ hk_ctx.messages[j].content[1] = "[result masked")

Writing == {w \in Writers : aw[w].pc # "idle"}

\* C29: whatever the interleaving of the writers and wherever a call fails,
\* final_path holds the previous content or the whole data of one writer;
\* two writers at work never have the same temp path; final_path changes
\* only in a rename that succeeds, to the data of the renaming writer, and
\* a call that returns an error leaves it as it was.
C29_AtomicReplace ==
    /\ [](/\ final_file \in {PreviousContent} \cup {DataOf(w) : w \in Writers}
          /\ \A v, w \in Writing : v # w => aw[v].temp_path # aw[w].temp_path)
    /\ [][/\ final_file' # final_file =>
                \E w \in Writers : /\ aw[w].pc = "rename"
                                   /\ aw'[w].result = "Ok"
                                   /\ final_file' = DataOf(w)
          /\ \A w \in Writers :
                (aw[w].pc # "idle" /\ aw'[w].result = "Err") => final_file' = final_file]_vars

\* One writer has replaced the file while the other, which had written a
\* part of its data to its temp file, failed.
C29_Witness ==
    /\ final_file = DataOf("w1")
    /\ aw["w1"].result = "Ok"
    /\ aw["w2"].result = "Err"
    /\ \E p \in TempPaths : temp_files[p].exists /\ temp_files[p].content = <<"w2">>

\* The file directives and the defaults load_all_directives merged.
FileDirectives ==
    load_directives_from_dir(dr_workspace, "Global") \o load_directives_from_dir(dr_agent, "Agent")
Defaults == default_directives(dr_memory)

\* The list load_all_directives returned.
Loaded == dr_loaded.directives

Entries(list) == {list[i] : i \in 1..Len(list)}

\* A default is dropped exactly when a file directive has its source name,
\* and every file directive is kept.
FileWins ==
    /\ \A d \in Entries(Defaults) :
          d \notin Entries(Loaded) <=> \E f \in Entries(FileDirectives) : f.source = d.source
    /\ Entries(FileDirectives) \subseteq Entries(Loaded)

\* C30: load_all_directives drops a runtime default exactly when a file
\* directive has its source name, keeps every file directive, and returns
\* every global-scope directive before every agent-scope directive.
C30_FileWinsGlobalFirst ==
    dr_loaded.called =>
        /\ FileWins
        /\ \A i, j \in 1..Len(Loaded) :
              (Loaded[i].scope = "Global" /\ Loaded[j].scope = "Agent") => i < j

\* What holds of the order: the file directives come global first, after
\* the defaults that were kept.
C30_FileWinsDefaultsFirst ==
    dr_loaded.called =>
        /\ FileWins
        /\ \A i, j \in 1..Len(Loaded) :
              \/ (Loaded[i].instruction = "default" /\ Loaded[j].instruction = "file")
              \/ (/\ Loaded[i].instruction = "file" /\ Loaded[j].instruction = "file"
                  /\ Loaded[i].scope = "Global" /\ Loaded[j].scope = "Agent")
              => i < j

\* The pattern matches the whole of s, each `*` standing for any substring,
\* the empty one too.
RECURSIVE GlobMatches(_, _)
GlobMatches(pattern, s) ==
    IF pattern = <<>> THEN s = <<>>
    ELSE IF Head(pattern) = "*"
    THEN \E k \in 0..Len(s) : GlobMatches(Tail(pattern), SubSeq(s, k + 1, Len(s)))
    ELSE s # <<>> /\ Head(s) = Head(pattern) /\ GlobMatches(Tail(pattern), Tail(s))

\* C33: matches_hook_pattern is true exactly when the pattern, each `*`
\* standing for any substring, matches the whole invocation; a pattern
\* without `*` matches only the identical string.
C33_GlobOverWholeInvocation ==
    gl_result.called =>
        /\ gl_result.matched = GlobMatches(gl_pattern, gl_invocation)
        /\ ~contains_star(gl_pattern) => (gl_result.matched = (gl_pattern = gl_invocation))

\* What holds: every invocation the pattern matches is accepted, and a
\* pattern without `*` accepts the identical string only.
C33_NeverRejectsAMatch ==
    gl_result.called =>
        /\ GlobMatches(gl_pattern, gl_invocation) => gl_result.matched
        /\ ~contains_star(gl_pattern) => (gl_result.matched = (gl_pattern = gl_invocation))

\* The tool calls of the assistant messages of the conversation.
AssistantToolCalls ==
    UNION {Range(dp_ctx.messages[i].tool_calls) :
             i \in {i \in 1..Len(dp_ctx.messages) :
                      dp_ctx.messages[i].role = "assistant" /\ dp_ctx.messages[i].has_tool_calls}}

\* C32: a DependsOn hook allows the call exactly when some assistant tool
\* call of the conversation matches `prior` and, with match_arg set, has for
\* it the value the current call has (both lacking it counts as the same);
\* otherwise it rejects with a reason naming the prior pattern. A hook
\* without `prior` always allows.
C32_AllowsIffPriorCall ==
    dp_verdict.kind # None =>
        IF dp_hook.prior = NoPrior THEN dp_verdict.kind = "Allow"
        ELSE IF \E tc \in AssistantToolCalls :
                   /\ matches_hook_pattern(dp_hook.prior, build_invocation_from_tool_call(tc))
                   /\ \/ dp_hook.match_arg = None
                      \/ (IF tc.valid THEN tc.handle ELSE 0) = dp_ctx.handle
        THEN dp_verdict.kind = "Allow"
        ELSE dp_verdict.kind = "Reject" /\ dp_verdict.names = dp_hook.prior

\* A matching prior call for another handle, after it one that does not
\* match the pattern: rejected.
C32_Witness ==
    /\ dp_verdict.kind = "Reject"
    /\ dp_hook = [prior |-> <<"a", ":", "a">>, match_arg |-> "handle"]
    /\ dp_ctx.handle = 1
    /\ Len(dp_ctx.messages) = 2
    /\ dp_ctx.messages[1] = DependsMessage("assistant", TRUE, <<ToolCall(<<"a">>, TRUE, <<"a">>, 2)>>)
    /\ dp_ctx.messages[2] = DependsMessage("assistant", TRUE, <<ToolCall(<<"a">>, TRUE, <<"b">>, 1)>>)

\* The callers between taking stdin out of the entry and putting it back.
InFlight == {u \in Callers : wi[u].pc \in {"write", "flush", "restore"}}

\* C34: the write_input calls to a subprocess handle are serialized by the
\* handle's lock: at most one caller has stdin taken out, a call that
\* returns Ok has written and flushed its whole text, a failing write
\* returns an error, stdin is in the entry whenever no call has it taken
\* out and the entry is there, and no call returns NoStdin.
C34_WritesSerialized ==
    /\ [](/\ Cardinality(InFlight) <= 1
          /\ InFlight # {} => wi_lock \in InFlight
          /\ (InFlight = {} /\ wi_entry.exists) => wi_entry.stdin
          /\ \A u \in Callers : wi[u].result # "NoStdin"
          /\ \A u \in Callers : wi[u].pc = "write" =>
                \A v \in Callers \ {u} : wi[v].pc # "write" /\ wi[v].pc # "flush")
    /\ [][\A u \in Callers :
             (wi[u].pc = "restore" /\ wi'[u].pc = "idle") =>
                /\ wi'[u].result = "Ok" =>
                      /\ wi[u].written = TextParts
                      /\ ~wi[u].failed
                      /\ SubSeq(wi_pipe, Len(wi_pipe) - TextParts + 1, Len(wi_pipe)) = TextOf(u)
                /\ wi[u].failed => wi'[u].result = "Io"
                /\ wi_entry.exists => wi_entry'.stdin]_vars

\* A call whose write failed part way returned an error, and after it the
\* other caller wrote its whole text while the first was waiting again.
C34_Witness ==
    /\ wi["u1"].result = "Io"
    /\ wi["u2"].result = "Ok"
    /\ wi_pipe = <<"u1", "u2", "u2">>
    /\ wi_entry.stdin

\* C35: once kill has returned Ok or the process has become terminal, no
\* watcher of the handle fires a screen-halted callback; and once
\* start_watcher has been called again, only the watcher it started fires.
C35_NoFireAfterKillOrRestart ==
    \A i \in 1..Len(sw_fires) :
        /\ ~sw_fires[i].killed
        /\ ~sw_fires[i].terminal
        /\ sw_fires[i].watcher = sw_fires[i].latest

\* What holds: every watcher but the one whose sender the entry holds has
\* been cancelled, has stopped or has not been started.
C35_OthersAreCancelled ==
    \A w \in WatcherIds :
        (sw_watchers[w].pc \notin {"unborn", "stopped"} /\ sw_entry.watcher_cancel_tx # w)
            => sw_watchers[w].cancelled

\* A callback fired after kill had returned Ok.
FiredAfterKill == \E i \in 1..Len(sw_fires) : sw_fires[i].killed

\* ------------------------------------------------------------------------
\* Properties of the callback dispatcher
\* ------------------------------------------------------------------------

\* Callback c is between taking the lock and the end of its loop.
Driving(c) == cb[c].pc \in {"build", "context", "loop"}

\* d took the lock of session s before c did.
LockedBefore(d, c, s) ==
    \E i, j \in 1..Len(acquired[s]) : i < j /\ acquired[s][i] = d /\ acquired[s][j] = c

\* c has read the history of its session.
HasContext(c) == cb[c].pc \in {"loop", "finish", "gateway"} \/ cb[c].result # None

Steered(c) ==
    cb[c].tx # None /\ \E i \in 1..Len(steering_rx[cb[c].tx]) : steering_rx[cb[c].tx][i] = c

\* c took the loop lock of its session for a fresh loop.
DroveLoop(c) ==
    \E i \in 1..Len(acquired[cb[c].session]) : acquired[cb[c].session][i] = c

\* The session's log holds the completion message of c, once.
MessagePersisted(c) ==
    Len(SelectSeq(session_log[cb[c].session], LAMBDA e : e = LogEntry(c, "user"))) = 1

\* The loop c drives was given the completion message in its history.
DrivenWithMessage(c) ==
    HasContext(c) => \E i \in 1..Len(cb[c].history) : cb[c].history[i] = LogEntry(c, "user")

\* What C16 says of every callback, and of the ones that have returned;
\* failed tells whether run_callback may return an error before the lock.
Routing(c, failed) ==
    cb[c].pc # "idle" =>
    /\ Driving(c) => loop_lock[cb[c].session] = c /\ cb[c].routed
    /\ DroveLoop(c) => cb[c].routed /\ ~Steered(c) /\ DrivenWithMessage(c)
    /\ Steered(c) => cb[c].routed /\ ~DroveLoop(c)
    /\ cb[c].pc = "done" =>
          /\ ~cb[c].routed =>
                /\ ~Steered(c) /\ ~DroveLoop(c)
                /\ \A i \in 1..Len(session_log[cb[c].session]) :
                      session_log[cb[c].session][i].by # c
          /\ cb[c].routed /\ ~Steered(c) =>
                \/ DroveLoop(c) /\ cb[c].result # None
                \/ failed /\ ~DroveLoop(c) /\ cb[c].result = "Err"

Enqueued(c) == \E o \in CbIds : c \in Range(steering_rx[o])

\* C36: a callback message whose send on a steering channel succeeded is
\* eventually drained and appended by the loop that owns the receiver.
C36_EnqueuedIsDrained ==
    \A c \in CbIds : Enqueued(c) ~> (c \in sd_drained)

\* What holds: a message is drained only by the loop whose channel it was
\* sent on, while that loop runs, and a callback whose send succeeded
\* starts no loop of its own.
C36_DrainedByOwner ==
    [][\A c \in CbIds :
          (c \notin sd_drained /\ c \in sd_drained') =>
              /\ cb[cb[c].tx].pc = "loop"
              /\ c \in Range(steering_rx[cb[c].tx])
              /\ ~DroveLoop(c)]_vars

\* A message sent to a loop that returned without draining it.
EnqueuedAndLeft ==
    \E c \in CbIds :
        /\ Enqueued(c)
        /\ cb[c].pc = "done"
        /\ cb[cb[c].tx].pc = "done"

\* How many times the session of c holds the message of c as a user message.
PersistedTimes(c) ==
    Len(SelectSeq(session_log[cb[c].session], LAMBDA e : e = LogEntry(c, "user")))

\* c took the lock and has built the context of its loop.
ContextBuilt(c) == DroveLoop(c) /\ cb[c].pc \notin {"build", "context"}

\* C37: on every path of a callback the dispatcher persists its message as
\* a user message at most once; a callback that drives a fresh loop has
\* persisted it exactly once when it takes the lock, and the context of its
\* loop is built from a history that holds it.
C37_PersistedOnceBeforeContext ==
    \A c \in CbIds :
        cb[c].pc # "idle" =>
            /\ PersistedTimes(c) <= 1
            /\ DroveLoop(c) => PersistedTimes(c) = 1
            /\ ContextBuilt(c) =>
                  Len(SelectSeq(cb[c].history, LAMBDA e : e = LogEntry(c, "user"))) = 1

\* A callback persisted its message on the steering path, its send failed,
\* and the loop it then drove has its context built, run_callback not
\* having persisted the message again.
C37_Witness ==
    \E c \in CbIds :
        /\ cb[c].tx # None
        /\ cb[c].persisted
        /\ ~cb[c].persist
        /\ cb[c].pc = "loop"
        /\ PersistedTimes(c) = 1

\* C38: a handle-addressed operation called with a session other than the
\* owner of the handle returns WrongSession and leaves every entry as it
\* was; list_by_session returns the processes of the given session only.
C38_WrongSessionChangesNothing ==
    /\ (/\ op_last.op \notin {None, "list_by_session"}
        /\ op_last.before[op_last.handle].exists
        /\ op_last.before[op_last.handle].session_id # op_last.session_id)
          => (op_last.result = "WrongSession" /\ op_entries = op_last.before)
    /\ op_last.op = "list_by_session" =>
          \A h \in op_last.listed :
             op_entries[h].exists /\ op_entries[h].session_id = op_last.session_id

\* kill of a running process with a watcher, by a session that does not own
\* it: refused, cancel senders and watcher where they were.
C38_Witness ==
    /\ op_last.op = "kill"
    /\ op_last.handle = "p1"
    /\ op_last.session_id = "s2"
    /\ op_last.result = "WrongSession"
    /\ op_entries["p1"].watcher_cancel_tx = 1
    /\ op_entries["p1"].cancel_tx
    /\ ~op_entries["p1"].terminal

\* ------------------------------------------------------------------------
\* Properties of the Anthropic stream adapter
\* ------------------------------------------------------------------------

\* Positions of the items of one kind in the adapter's output.
AdPositions(kind) == {i \in 1..Len(ad_out) : ad_out[i].kind = kind}

\* C39: once the adapter has been polled to its end (message_stop or the end
\* of the input was reached, and poll_next returned None), its output ends
\* with exactly one Done, preceded by at most one ToolCalls.
C39_EndsWithOneDone ==
    ad.ended =>
        /\ AdPositions("Done") = {Len(ad_out)}
        /\ Cardinality(AdPositions("ToolCalls")) <= 1

\* What holds of the output: a Done is the last item, there is at most one,
\* and nothing follows it; every ToolCalls item is non-empty and holds only
\* calls with an id; a finished output ends with Done or with ToolCalls.
C39_NothingAfterDone ==
    /\ AdPositions("Done") \subseteq {Len(ad_out)}
    /\ \A i \in AdPositions("ToolCalls") :
          /\ ad_out[i].calls # <<>>
          /\ \A k \in 1..Len(ad_out[i].calls) : ad_out[i].calls[k].id # ""
    /\ ad.ended => ad_out # <<>> /\ ad_out[Len(ad_out)].kind \in {"Done", "ToolCalls"}

\* The adapter ended on the pending tool calls, and no Done was emitted.
EndedOnToolCalls ==
    /\ ad.ended
    /\ ad_out # <<>>
    /\ ad_out[Len(ad_out)].kind = "ToolCalls"
    /\ AdPositions("Done") = {}

\* Two ToolCalls items in one output.
TwoToolCalls == Cardinality(AdPositions("ToolCalls")) = 2

\* ------------------------------------------------------------------------
\* Properties of the OpenAI parser over any finite byte stream
\* ------------------------------------------------------------------------

\* poll_next has returned with done set: the next poll returns None.
OaFinished == oa.done /\ oa.pc = "returned"

OaDones == {i \in 1..Len(oa_out) : oa_out[i].kind = "Done"}

\* C40: the inner stream is never polled again after it has reported its
\* end, and a finished output ends with exactly one Done.
C40_OneDoneNoPollAfterEnd ==
    /\ ~oa_in.polled_after_end
    /\ OaFinished => OaDones = {Len(oa_out)}

\* What holds: there is at most one Done and it is the last item; the ended
\* stream is polled again only with an unfinished line left in the buffer;
\* and without that the finished output ends with exactly one Done.
C40_OneDoneUnlessLineUnfinished ==
    /\ OaDones \subseteq {Len(oa_out)}
    /\ oa_in.polled_after_end => oa.buffer # <<>> /\ find_newline(oa.buffer) = 0
    /\ (OaFinished /\ ~oa_in.polled_after_end) => OaDones = {Len(oa_out)}

\* The stream ended on `data: [DONE]` without a newline, the parser polled it
\* again, and the output has no Done.
PolledAfterEndNoDone ==
    /\ oa_in.polled_after_end
    /\ oa.buffer = <<"done">>
    /\ OaFinished
    /\ OaDones = {}

============================================================================
